---- MODULE Spec2Model ----
(***************************************************************************)
(* A model of cumulogenesis: the Organization model                        *)
(* (cumulogenesis/models/aws_entities/organization.py), the                *)
(* OrganizationService (cumulogenesis/services/organization.py) and the    *)
(* AWS Organizations API they drive.                                       *)
(*                                                                         *)
(* Python dicts are functions; a key that may be absent is absent from the *)
(* function's DOMAIN ('policies' in entity  ==  "policies" \in DOMAIN e).  *)
(* Python lists are sequences.  A dict is iterated in the fixed order of   *)
(* AccountOrder / OrgunitOrder / PolicyOrder.                              *)
(***************************************************************************)
EXTENDS Integers, Sequences, FiniteSets, TLC

VARIABLES
    declared,           \* the configured Organization (self)
    prov,               \* the state held by AWS Organizations
    aws_model,          \* self.aws_model
    updated_model,      \* self.updated_model
    actions,            \* report['actions']
    kinds,              \* the keys of report['actions'], in the order of the dict
    problems,           \* the problems dry_run found: those it raised with,
                        \* report['problems'], report['aws_model_problems']
    changes,            \* report['changes']
    pc,                 \* position in dry_run / converge
    calls,              \* the mutating API calls issued so far, in order
    error,              \* the exception that ended the run, or "none"
    faults,             \* API calls that failed with a service error so far
    creation_statuses,  \* create_accounts: account -> CreateAccountStatus
    waiting_accounts,   \* _wait_on_account_creation: accounts still polled
    polls,              \* describe_create_account_status calls so far
    cancelled,          \* the operator has asked the run to stop
    config,             \* the configuration document given to the loader
    dumped,             \* what dump_organization_to_config returned or raised
    hierarchy,          \* what get_orgunit_hierarchy returned or raised
    arguments           \* the arguments of a call of OrganizationService

vars == <<declared, prov, aws_model, updated_model, actions, kinds, problems,
          changes, pc,
          calls, error, faults, creation_statuses, waiting_accounts, polls,
          cancelled, config, dumped, hierarchy, arguments>>

----------------------------------------------------------------------------
(* Bounds of the model.                                                    *)

\* API calls that may fail with a service error (access denied,
\* throttling) in one run.
MaxFaults == 1
\* Polls after which a CreateAccount request has left IN_PROGRESS.
MaxPolls == 2

AccountOrder == <<"master", "acct_a", "acct_b">>
OrgunitOrder == <<"ou_a", "ou_b", "ou_c">>
PolicyOrder == <<"pol_a", "FullAWSAccess">>

----------------------------------------------------------------------------
(* Lists and dicts.                                                        *)

Range(s) == {s[i] : i \in DOMAIN s}

Contains(s, x) == \E i \in DOMAIN s : s[i] = x

IndexOf(s, x) == CHOOSE i \in DOMAIN s : s[i] = x

\* The elements of set S as a list, in the order of `order`.
Ordered(S, order) == SelectSeq(order, LAMBDA x : x \in S)

\* dict.get(key, default)
Get(d, key, default) == IF key \in DOMAIN d THEN d[key] ELSE default

\* d[key] = value
Put(d, key, value) ==
    [k \in DOMAIN d \cup {key} |-> IF k = key THEN value ELSE d[k]]

EmptyDict == [k \in {} |-> 0]

RECURSIVE Concat(_)
Concat(ss) == IF ss = <<>> THEN <<>> ELSE Head(ss) \o Concat(Tail(ss))

----------------------------------------------------------------------------
(* Identifiers handed out by AWS.                                          *)

RootParentId == <<"r", 0>>
AccountId(name) == <<"acct", IndexOf(AccountOrder, name)>>
PolicyId(name) == <<"pol", IndexOf(PolicyOrder, name)>>
OrgunitId(k) == <<"ou", k>>
RootAccountId == AccountId("master")

----------------------------------------------------------------------------
(* AWS Organizations, as the boto3 client of OrganizationService sees it.  *)
(* prov.accounts : name -> [id, name, email, parent]                       *)
(* prov.ous      : k    -> [id, name, parent]   (id = OrgunitId(k))        *)
(* prov.policies : name -> [id, name, description, content, aws_managed]   *)
(* prov.attachments : set of <<policy id, target id>>                      *)
(* prov.requests : account name -> [state, reason, polls]                  *)

NoProvider ==
    [exists |-> FALSE, master |-> RootAccountId, featureset |-> "NONE",
     scp_enabled |-> FALSE, accounts |-> EmptyDict, ous |-> EmptyDict,
     next_ou |-> 1, policies |-> EmptyDict, attachments |-> {},
     requests |-> EmptyDict]

ProvOuIds(p) == {p.ous[k].id : k \in DOMAIN p.ous}

ProvParentIds(p) == {RootParentId} \cup ProvOuIds(p)

ProvTargetIds(p) ==
    ProvParentIds(p) \cup {p.accounts[a].id : a \in DOMAIN p.accounts}

ProvPolicyIds(p) == {p.policies[n].id : n \in DOMAIN p.policies}

\* list_children(ParentId, ChildType="ORGANIZATIONAL_UNIT"), as ids
ProvChildOus(p, parent) ==
    LET ks == {k \in DOMAIN p.ous : p.ous[k].parent = parent}
    IN  [i \in 1..Cardinality(ks) |->
            p.ous[CHOOSE k \in ks : Cardinality({j \in ks : j < k}) = i - 1].id]

\* list_children(ParentId, ChildType="ACCOUNT"), as ids
ProvChildAccounts(p, parent) ==
    LET names == Ordered({a \in DOMAIN p.accounts : p.accounts[a].parent = parent},
                         AccountOrder)
    IN  [i \in DOMAIN names |-> p.accounts[names[i]].id]

ProvOuById(p, id) == p.ous[CHOOSE k \in DOMAIN p.ous : p.ous[k].id = id]

ProvAccountById(p, id) ==
    p.accounts[CHOOSE a \in DOMAIN p.accounts : p.accounts[a].id = id]

ProvPolicyById(p, id) ==
    p.policies[CHOOSE n \in DOMAIN p.policies : p.policies[n].id = id]

\* An orgunit that still has a child orgunit or a child account.
ProvOuNotEmpty(p, id) ==
    \/ \E k \in DOMAIN p.ous : p.ous[k].parent = id
    \/ \E a \in DOMAIN p.accounts : p.accounts[a].parent = id

ProvPolicyAttached(p, id) == \E t \in p.attachments : t[1] = id

\* The service's answer to one mutating call: the exception code it raises
\* ("ok" when it raises none).
ProvCode(p, op, arg) ==
    CASE op = "create_organization" ->
            IF p.exists THEN "AlreadyInOrganizationException" ELSE "ok"
      [] op = "enable_policy_type" ->
            IF p.exists /\ arg.RootId = RootParentId THEN "ok"
            ELSE "RootNotFoundException"
      [] op = "create_policy" ->
            IF arg.Name \in DOMAIN p.policies THEN "DuplicatePolicyException"
            ELSE "ok"
      [] op = "update_policy" ->
            IF arg.PolicyId \in ProvPolicyIds(p) THEN "ok"
            ELSE "PolicyNotFoundException"
      [] op = "delete_policy" ->
            IF arg.PolicyId \notin ProvPolicyIds(p) THEN "PolicyNotFoundException"
            ELSE IF ProvPolicyAttached(p, arg.PolicyId) THEN "PolicyInUseException"
            ELSE "ok"
      [] op = "attach_policy" ->
            IF arg.PolicyId \notin ProvPolicyIds(p) THEN "PolicyNotFoundException"
            ELSE IF arg.TargetId \notin ProvTargetIds(p) THEN "TargetNotFoundException"
            ELSE IF <<arg.PolicyId, arg.TargetId>> \in p.attachments
                 THEN "DuplicatePolicyAttachmentException"
            ELSE "ok"
      [] op = "detach_policy" ->
            IF <<arg.PolicyId, arg.TargetId>> \in p.attachments THEN "ok"
            ELSE "PolicyNotAttachedException"
      [] op = "create_account" ->
            IF p.exists THEN "ok" ELSE "AWSOrganizationsNotInUseException"
      [] op = "create_organizational_unit" ->
            IF arg.ParentId \notin ProvParentIds(p) THEN "ParentNotFoundException"
            ELSE IF \E k \in DOMAIN p.ous :
                        p.ous[k].parent = arg.ParentId /\ p.ous[k].name = arg.Name
                 THEN "DuplicateOrganizationalUnitException"
            ELSE "ok"
      [] op = "delete_organizational_unit" ->
            IF arg.OrganizationalUnitId \notin ProvOuIds(p)
                THEN "OrganizationalUnitNotFoundException"
            ELSE IF ProvOuNotEmpty(p, arg.OrganizationalUnitId)
                THEN "OrganizationalUnitNotEmptyException"
            ELSE "ok"
      [] op = "move_account" ->
            IF ~\E a \in DOMAIN p.accounts : p.accounts[a].id = arg.AccountId
                THEN "AccountNotFoundException"
            ELSE IF ProvAccountById(p, arg.AccountId).parent # arg.SourceParentId
                THEN "SourceParentNotFoundException"
            ELSE IF arg.DestinationParentId \notin ProvParentIds(p)
                THEN "DestinationParentNotFoundException"
            ELSE "ok"

\* The state of the service after a mutating call it accepted.
ProvEffect(p, op, arg) ==
    CASE op = "create_organization" ->
            [p EXCEPT !.exists = TRUE, !.featureset = arg.FeatureSet,
                      !.accounts = [a \in {"master"} |->
                            [id |-> RootAccountId, name |-> "master",
                             email |-> "master", parent |-> RootParentId]]]
      [] op = "enable_policy_type" -> [p EXCEPT !.scp_enabled = TRUE]
      [] op = "create_policy" ->
            [p EXCEPT !.policies = Put(@, arg.Name,
                [id |-> PolicyId(arg.Name), name |-> arg.Name,
                 description |-> arg.Description, content |-> arg.Content,
                 aws_managed |-> FALSE])]
      [] op = "update_policy" ->
            LET old == ProvPolicyById(p, arg.PolicyId)
            IN  [p EXCEPT !.policies = Put(@, old.name,
                    [old EXCEPT !.description = arg.Description,
                                !.content = arg.Content])]
      [] op = "delete_policy" ->
            [p EXCEPT !.policies =
                [n \in {m \in DOMAIN @ : @[m].id # arg.PolicyId} |-> @[n]]]
      [] op = "attach_policy" ->
            [p EXCEPT !.attachments = @ \cup {<<arg.PolicyId, arg.TargetId>>}]
      [] op = "detach_policy" ->
            [p EXCEPT !.attachments = @ \ {<<arg.PolicyId, arg.TargetId>>}]
      [] op = "create_account" ->
            [p EXCEPT !.requests = Put(@, arg.AccountName,
                [state |-> "IN_PROGRESS", reason |-> "none", polls |-> 0,
                 email |-> arg.Email])]
      [] op = "create_organizational_unit" ->
            [p EXCEPT !.ous = Put(@, p.next_ou,
                            [id |-> OrgunitId(p.next_ou), name |-> arg.Name,
                             parent |-> arg.ParentId]),
                      !.next_ou = @ + 1]
      [] op = "delete_organizational_unit" ->
            [p EXCEPT !.ous =
                        [k \in {j \in DOMAIN @ : @[j].id # arg.OrganizationalUnitId}
                            |-> @[k]],
                      !.attachments =
                        {t \in @ : t[2] # arg.OrganizationalUnitId}]
      [] op = "move_account" ->
            LET acct == ProvAccountById(p, arg.AccountId)
            IN  [p EXCEPT !.accounts[acct.name].parent = arg.DestinationParentId]

\* The ints of S as a list in increasing order.
SortedInts(S) ==
    [i \in 1..Cardinality(S) |->
        CHOOSE k \in S : Cardinality({j \in S : j < k}) = i - 1]

\* list_targets_for_policy(PolicyId): root first, then orgunits, then accounts
ProvTargetsForPolicy(p, id) ==
    LET root == IF <<id, RootParentId>> \in p.attachments
                THEN <<[Type |-> "ROOT", Name |-> "Root"]>> ELSE <<>>
        ks == SortedInts({k \in DOMAIN p.ous : <<id, p.ous[k].id>> \in p.attachments})
        as == Ordered({a \in DOMAIN p.accounts :
                            <<id, p.accounts[a].id>> \in p.attachments}, AccountOrder)
    IN  root
        \o [i \in DOMAIN ks |->
                [Type |-> "ORGANIZATIONAL_UNIT", Name |-> p.ous[ks[i]].name]]
        \o [i \in DOMAIN as |-> [Type |-> "ACCOUNT", Name |-> as[i]]]

----------------------------------------------------------------------------
(* Organization.__init__ and the loaders of OrganizationService.  A loader *)
(* returns [org, err]: the Organization it filled and the exception it     *)
(* raised ("none" when it raised none).                                    *)

NoId == <<"none", 0>>

NewOrganization(source) ==
    [root_account_id |-> RootAccountId, source |-> source,
     featureset |-> "None", accounts |-> EmptyDict,
     account_ids_to_names |-> EmptyDict, policies |-> EmptyDict,
     orgunits |-> EmptyDict, orgunit_ids_to_names |-> EmptyDict,
     ids_to_children |-> EmptyDict, exists |-> TRUE,
     root_parent_id |-> NoId, root_policies |-> <<>>, org_id |-> "None"]

RECURSIVE SetOrgIdsToChildren(_, _, _)
RECURSIVE SetOrgIdsOfOrgunits(_, _, _, _, _)

\* OrganizationService._set_org_ids_to_children
SetOrgIdsToChildren(p, itc, parent) ==
    LET base == IF parent \in DOMAIN itc THEN itc
                ELSE Put(itc, parent, [accounts |-> <<>>, orgunits |-> <<>>])
        withAccounts ==
            Put(base, parent, [base[parent] EXCEPT
                                !.accounts = @ \o ProvChildAccounts(p, parent)])
    IN  SetOrgIdsOfOrgunits(p, withAccounts, parent, ProvChildOus(p, parent), 1)

\* its loop over orgunit_children['Children']
SetOrgIdsOfOrgunits(p, itc, parent, ous, i) ==
    IF i > Len(ous) THEN itc
    ELSE SetOrgIdsOfOrgunits(
            p,
            SetOrgIdsToChildren(
                p,
                Put(itc, parent, [itc[parent] EXCEPT !.orgunits = Append(@, ous[i])]),
                ous[i]),
            parent, ous, i + 1)

\* OrganizationService._get_root_parent_id: the parents of the root account
\* that are of Type ROOT; [0] of an empty list is an IndexError.
RootParentsOf(p, account_id) ==
    IF \E a \in DOMAIN p.accounts :
            p.accounts[a].id = account_id /\ p.accounts[a].parent = RootParentId
    THEN <<RootParentId>> ELSE <<>>

\* _set_organization_attributes with the comparison of the master account
\* moved below the assignment of featureset
SetOrganizationAttributesLate(org, p) ==
    IF p.master # org.root_account_id
    THEN [org |-> [org EXCEPT !.featureset = p.featureset],
          err |-> "OrganizationMemberAccountException"]
    ELSE IF RootParentsOf(p, org.root_account_id) = <<>>
    THEN [org |-> [org EXCEPT !.featureset = p.featureset], err |-> "IndexError"]
    ELSE [org |-> [org EXCEPT
                    !.featureset = p.featureset,
                    !.root_parent_id = RootParentsOf(p, org.root_account_id)[1],
                    !.org_id = "o-org",
                    !.ids_to_children =
                        SetOrgIdsToChildren(p, @, RootParentsOf(p, org.root_account_id)[1])],
          err |-> "none"]

\* OrganizationService._set_organization_attributes
SetOrganizationAttributes(org, p) ==
    IF p.master # org.root_account_id
    THEN [org |-> org, err |-> "OrganizationMemberAccountException"]
    ELSE IF RootParentsOf(p, org.root_account_id) = <<>>
    THEN [org |-> [org EXCEPT !.featureset = p.featureset], err |-> "IndexError"]
    ELSE LET root == RootParentsOf(p, org.root_account_id)[1]
         IN  [org |-> [org EXCEPT
                        !.featureset = p.featureset,
                        !.root_parent_id = root,
                        !.org_id = "o-org",
                        !.ids_to_children = SetOrgIdsToChildren(p, @, root)],
              err |-> "none"]

\* describe_organization raises a ClientError: when there is no
\* organization (AWSOrganizationsNotInUseException), and when AWS refuses
\* or fails the call, which the state of AWS records under describe_error.
DescribeRaises(p) == ~p.exists \/ "describe_error" \in DOMAIN p

\* OrganizationService.load_organization
LoadOrganization(org, p) ==
    LET described == [org EXCEPT !.exists = IF DescribeRaises(p) THEN FALSE ELSE @]
    IN  IF described.exists THEN SetOrganizationAttributes(described, p)
        ELSE [org |-> described, err |-> "none"]

\* OrganizationService.load_accounts
LoadAccounts(org, p) ==
    LET names == DOMAIN p.accounts
    IN  [org |-> [org EXCEPT
            !.accounts = [n \in DOMAIN @ \cup names |->
                IF n \in names
                THEN [name |-> p.accounts[n].name, owner |-> p.accounts[n].email,
                      account_id |-> p.accounts[n].id, regions |-> <<>>]
                ELSE @[n]],
            !.account_ids_to_names =
                [i \in DOMAIN @ \cup {p.accounts[n].id : n \in names} |->
                    IF \E n \in names : p.accounts[n].id = i
                    THEN ProvAccountById(p, i).name ELSE @[i]]],
         err |-> "none"]

\* OrganizationService.load_orgunits: _load_orgunit on every orgunit id
\* under the root (its recursion visits each key of ids_to_children but the
\* root), then _add_orgunit_children_to_parents.
LoadOrgunits(org, p) ==
    IF org.root_parent_id \notin DOMAIN org.ids_to_children
    THEN [org |-> org, err |-> "KeyError"]
    ELSE
    LET itc == org.ids_to_children
        ids == DOMAIN itc \ {org.root_parent_id}
        names == {ProvOuById(p, i).name : i \in ids}
        idOf(n) == CHOOSE i \in ids : ProvOuById(p, i).name = n
        ids_to_names ==
            [i \in DOMAIN org.orgunit_ids_to_names \cup ids |->
                IF i \in ids THEN ProvOuById(p, i).name
                ELSE org.orgunit_ids_to_names[i]]
        missing == \E i \in ids : \E j \in DOMAIN itc[i].accounts :
                        itc[i].accounts[j] \notin DOMAIN org.account_ids_to_names
        loaded(n) ==
            [id |-> idOf(n), name |-> n,
             accounts |-> [j \in DOMAIN itc[idOf(n)].accounts |->
                            org.account_ids_to_names[itc[idOf(n)].accounts[j]]]]
        all == [n \in DOMAIN org.orgunits \cup names |->
                    IF n \in names THEN loaded(n) ELSE org.orgunits[n]]
        withChildren ==
            [n \in DOMAIN all |->
                Put(all[n], "child_orgunits",
                    [j \in DOMAIN itc[all[n].id].orgunits |->
                        ids_to_names[itc[all[n].id].orgunits[j]]])]
    IN  IF missing THEN [org |-> org, err |-> "KeyError"]
        ELSE [org |-> [org EXCEPT !.orgunits = withChildren,
                                  !.orgunit_ids_to_names = ids_to_names],
              err |-> "none"]

\* OrganizationService._add_policy_to_target
AddPolicyToTarget(org, target, policy_name) ==
    IF target.Type = "ROOT"
    THEN [org EXCEPT !.root_policies = Append(@, policy_name)]
    ELSE LET key == IF target.Type = "ACCOUNT" THEN "accounts" ELSE "orgunits"
             dict == org[key]
         IN  IF target.Name \in DOMAIN dict
             THEN [org EXCEPT ![key] = Put(@, target.Name,
                        Put(dict[target.Name], "policies",
                            Append(Get(dict[target.Name], "policies", <<>>),
                                   policy_name)))]
             ELSE org

RECURSIVE AddPolicyToTargets(_, _, _)
AddPolicyToTargets(org, targets, policy_name) ==
    IF targets = <<>> THEN org
    ELSE AddPolicyToTargets(AddPolicyToTarget(org, Head(targets), policy_name),
                            Tail(targets), policy_name)

RECURSIVE LoadPoliciesFrom(_, _, _)
LoadPoliciesFrom(org, p, names) ==
    IF names = <<>> THEN org
    ELSE LET policy == p.policies[Head(names)]
             model == [name |-> policy.name, id |-> policy.id,
                       description |-> policy.description,
                       aws_managed |-> policy.aws_managed,
                       document |-> [content |-> policy.content]]
             stored == [org EXCEPT !.policies = Put(@, policy.name, model)]
         IN  LoadPoliciesFrom(
                AddPolicyToTargets(stored, ProvTargetsForPolicy(p, policy.id),
                                   policy.name),
                p, Tail(names))

\* OrganizationService.load_policies
LoadPolicies(org, p) ==
    [org |-> LoadPoliciesFrom(org, p, Ordered(DOMAIN p.policies, PolicyOrder)),
     err |-> "none"]

\* A loader after another: nothing is loaded once one raised.
LoadOrgunitsNext(l, p) == IF l.err # "none" THEN l ELSE LoadOrgunits(l.org, p)

LoadPoliciesNext(l, p) == IF l.err # "none" THEN l ELSE LoadPolicies(l.org, p)

\* Organization.reload_orgunits
ReloadOrgunits(org, p) ==
    LoadOrgunitsNext(
        LoadOrganization([org EXCEPT !.ids_to_children = EmptyDict,
                                     !.orgunits = EmptyDict], p), p)

\* Organization.reload_policies
ReloadPolicies(org, p) == LoadPolicies([org EXCEPT !.policies = EmptyDict], p)

\* Organization.reload_accounts
ReloadAccounts(org, p) == LoadAccounts([org EXCEPT !.accounts = EmptyDict], p)

\* Organization._load_organization, after load_organization: the accounts,
\* orgunits and policies of an organization that exists
LoadExisting(l, p) ==
    IF l.err # "none" \/ ~l.org.exists THEN l
    ELSE LoadPoliciesNext(LoadOrgunitsNext(LoadAccounts(l.org, p), p), p)

\* Organization._load_organization (Organization.load on a model whose
\* source is "aws")
LoadOrganizationModel(org, p) == LoadExisting(LoadOrganization(org, p), p)

\* Organization.load
Load(org, p) ==
    IF org.source # "aws" THEN [org |-> org, err |-> "NotAwsModelException"]
    ELSE LoadOrganizationModel(org, p)

\* The calls of the boto3 client that _set_organization_attributes issues
AttributeCalls(org, p) ==
    IF p.master # org.root_account_id THEN <<>>
    ELSE IF RootParentsOf(p, org.root_account_id) = <<>> THEN <<"list_parents">>
    ELSE <<"list_parents", "list_children">>

\* The calls of the boto3 client that load_accounts, load_orgunits and
\* load_policies issue
EntityCalls(p) ==
    <<"list_accounts">>
    \o [k \in 1..Cardinality(DOMAIN p.ous) |-> "describe_organizational_unit"]
    \o <<"list_policies">>
    \o [k \in 1..Cardinality(DOMAIN p.policies) |-> "list_targets_for_policy"]

\* The calls of the boto3 client that Organization.load issues, in order
LoadCalls(org, p) ==
    IF org.source # "aws" THEN <<>>
    ELSE IF DescribeRaises(p) THEN <<"describe_organization">>
    ELSE IF LoadOrganization(org, p).err # "none"
    THEN <<"describe_organization">> \o AttributeCalls(org, p)
    ELSE <<"describe_organization">> \o AttributeCalls(org, p) \o EntityCalls(p)

----------------------------------------------------------------------------
(* Organization.validate.  A problem is [problem, names]: the message and  *)
(* the names formatted into it.                                            *)

PoliciesAwsManaged == <<"FullAWSAccess">>

Problem(message, names) == [problem |-> message, names |-> names]

OrgunitNames(org) == Ordered(DOMAIN org.orgunits, OrgunitOrder)
AccountNames(org) == Ordered(DOMAIN org.accounts, AccountOrder)
PolicyNames(org) == Ordered(DOMAIN org.policies, PolicyOrder)

\* Organization._generate_orgunit_parent_references
GenerateOrgunitParentReferences(org) ==
    LET names == OrgunitNames(org)
        refs(child) ==
            Concat([i \in DOMAIN names |->
                [j \in DOMAIN SelectSeq(org.orgunits[names[i]].child_orgunits,
                                        LAMBDA c : c = child) |-> names[i]]])
    IN  [org EXCEPT !.orgunits =
            [n \in DOMAIN @ |-> Put(@[n], "parent_references", refs(n))]]

\* A validation that appends to the parent_references an account has
\* already.
AccountParentReferencesAppended(org) ==
    LET names == OrgunitNames(org)
        refs(account) ==
            Concat([i \in DOMAIN names |->
                [j \in DOMAIN SelectSeq(Get(org.orgunits[names[i]], "accounts", <<>>),
                                        LAMBDA a : a = account) |->
                    org.orgunits[names[i]].name]])
    IN  [org EXCEPT !.accounts =
            [n \in DOMAIN @ |->
                Put(@[n], "parent_references",
                    Get(@[n], "parent_references", <<>>) \o refs(n))]]

\* Organization._initialize_account_parent_references and the appends of
\* Organization._validate_orgunit
AccountParentReferences(org) ==
    LET names == OrgunitNames(org)
        refs(account) ==
            Concat([i \in DOMAIN names |->
                [j \in DOMAIN SelectSeq(Get(org.orgunits[names[i]], "accounts", <<>>),
                                        LAMBDA a : a = account) |->
                    org.orgunits[names[i]].name]])
    IN  [org EXCEPT !.accounts =
            [n \in DOMAIN @ |-> Put(@[n], "parent_references", refs(n))]]

\* A validation of the policies of an entity that knows no AWS-managed
\* policy: every reference to a policy that the model lacks is a problem.
PolicyProblemsUnmanaged(org, entity) ==
    LET missing == SelectSeq(Get(entity, "policies", <<>>),
                             LAMBDA q : q \notin DOMAIN org.policies)
    IN  [i \in DOMAIN missing |-> Problem("references missing policy", <<missing[i]>>)]

\* Organization._validate_policies_on_entity
PolicyProblems(org, entity) ==
    LET policies == Get(entity, "policies", <<>>)
        missing == SelectSeq(policies, LAMBDA q :
                        q \notin DOMAIN org.policies /\ ~Contains(PoliciesAwsManaged, q))
    IN  [i \in DOMAIN missing |-> Problem("references missing policy", <<missing[i]>>)]

\* Organization._validate_orgunit (the problems it returns)
ValidateOrgunit(org, orgunit_name) ==
    LET orgunit == org.orgunits[orgunit_name]
        children == SelectSeq(Get(orgunit, "child_orgunits", <<>>),
                              LAMBDA c : c \notin DOMAIN org.orgunits)
        accounts == SelectSeq(Get(orgunit, "accounts", <<>>),
                              LAMBDA a : a \notin DOMAIN org.accounts)
    IN  [i \in DOMAIN children |->
            Problem("references missing child orgunit", <<children[i]>>)]
        \o [i \in DOMAIN accounts |->
            Problem("references missing account", <<accounts[i]>>)]
        \o PolicyProblems(org, orgunit)

\* A validation that takes every account without a parent for orphaned, the
\* root account too.
ValidateAccountAlike(org, account_name) ==
    (IF org.accounts[account_name].parent_references = <<>>
     THEN <<Problem("orphaned", <<>>)>>
     ELSE IF Len(org.accounts[account_name].parent_references) > 1
     THEN <<Problem("referenced as a child of multiple orgunits",
                    org.accounts[account_name].parent_references)>>
     ELSE <<>>)
    \o PolicyProblems(org, org.accounts[account_name])

\* Organization._validate_account
ValidateAccount(org, account_name) ==
    LET account == org.accounts[account_name]
    IN  (IF account.parent_references = <<>>
            /\ ~(Get(account, "account_id", NoId) = org.root_account_id)
         THEN <<Problem("orphaned", <<>>)>>
         ELSE IF Len(account.parent_references) > 1
         THEN <<Problem("referenced as a child of multiple orgunits",
                        account.parent_references)>>
         ELSE <<>>)
        \o PolicyProblems(org, account)

\* The problems dict of validate: a key for each entity type with problems.
ProblemsOf(org, ous, accts) ==
    [k \in (IF ous = {} THEN {} ELSE {"orgunits"})
           \cup (IF accts = {} THEN {} ELSE {"accounts"}) |->
        IF k = "orgunits" THEN [n \in ous |-> ValidateOrgunit(org, n)]
        ELSE [n \in accts |-> ValidateAccount(org, n)]]

\* Organization._validate_orgunits and _validate_accounts on a model whose
\* parent_references are set
Validated(org) ==
    [org |-> org,
     problems |->
        ProblemsOf(org,
            {n \in DOMAIN org.orgunits : ValidateOrgunit(org, n) # <<>>},
            {n \in DOMAIN org.accounts : ValidateAccount(org, n) # <<>>})]

\* Organization.validate: [org, problems], the model with its
\* parent_references set, and the problems by entity type and name.
Validate(org) ==
    Validated(AccountParentReferences(GenerateOrgunitParentReferences(org)))

----------------------------------------------------------------------------
(* The comparison of the configured model against the model loaded from    *)
(* AWS.  report['actions'] is a dict of entity type to a dict of entity    *)
(* name to action; a type is a key only once an action was added to it.    *)

ComparableAccountAttributes == <<"name", "policies">>
ComparableOrgunitAttributes == <<"name", "policies">>
ComparablePolicyAttributes == <<"name", "description", "document">>

\* Organization._render_comparable_entity
RenderComparableEntity(entity, renderable_attributes) ==
    [a \in Range(renderable_attributes) \cap DOMAIN entity |-> entity[a]]

\* helpers.deep_diff: DeepDiff(ignore_order=True) takes lists as sets of
\* their items; it is empty (falsy) when nothing differs.
Unordered(entity) ==
    [a \in DOMAIN entity |->
        IF a = "policies" THEN Range(entity[a]) ELSE entity[a]]

DeepDiff(item1, item2) == Unordered(item1) # Unordered(item2)

\* Organization._add_action_to_report
AddActionToReport(acts, entity_type, entity_name, action) ==
    Put(acts, entity_type,
        Put(Get(acts, entity_type, EmptyDict), entity_name, [action |-> action]))

\* Organization._add_association_to_report
AddAssociationToReport(acts, entity_type, entity_name, parent_name) ==
    Put(acts, entity_type \o "_associations",
        Put(Get(acts, entity_type \o "_associations", EmptyDict), entity_name,
            [action |-> "associate", parent |-> parent_name]))

\* Organization._get_association_for_account / _get_association_for_orgunit
GetAssociation(entity) ==
    IF entity.parent_references # <<>> THEN entity.parent_references[1]
    ELSE "root"

RECURSIVE CompareAccountsFrom(_, _, _, _)
\* Organization._compare_accounts, its loop over self.accounts
CompareAccountsFrom(org, aws, acts, names) ==
    IF names = <<>> THEN acts
    ELSE LET account == Head(names)
             configured == RenderComparableEntity(org.accounts[account],
                                                  ComparableAccountAttributes)
             existing == RenderComparableEntity(aws.accounts[account],
                                                ComparableAccountAttributes)
             next ==
                IF account \notin DOMAIN aws.accounts
                THEN AddActionToReport(acts, "accounts", account,
                        IF "account_id" \in DOMAIN org.accounts[account]
                        THEN "invite" ELSE "create")
                ELSE IF DeepDiff(configured, existing)
                THEN AddActionToReport(acts, "accounts", account, "update")
                ELSE acts
         IN  CompareAccountsFrom(org, aws, next, Tail(names))

RECURSIVE CompareNewAssociations(_, _, _, _)
\* A comparison that associates only the accounts AWS does not have yet.
CompareNewAssociations(org, aws, acts, names) ==
    IF names = <<>> THEN acts
    ELSE CompareNewAssociations(
            org, aws,
            IF Get(org.accounts[Head(names)], "account_id", NoId) # org.root_account_id
                /\ Head(names) \notin DOMAIN aws.accounts
            THEN AddAssociationToReport(acts, "account", Head(names),
                                        GetAssociation(org.accounts[Head(names)]))
            ELSE acts,
            Tail(names))

RECURSIVE CompareConfiguredAssociations(_, _, _, _)
\* Organization._compare_account_associations, its loop over self.accounts
CompareConfiguredAssociations(org, aws, acts, names) ==
    IF names = <<>> THEN acts
    ELSE LET account == Head(names)
             configured_parent == GetAssociation(org.accounts[account])
             next ==
                IF Get(org.accounts[account], "account_id", NoId) = org.root_account_id
                THEN acts
                ELSE IF account \notin DOMAIN aws.accounts
                THEN AddAssociationToReport(acts, "account", account, configured_parent)
                ELSE IF configured_parent # GetAssociation(aws.accounts[account])
                THEN AddAssociationToReport(acts, "account", account, configured_parent)
                ELSE acts
         IN  CompareConfiguredAssociations(org, aws, next, Tail(names))

\* An account of AWS that is not configured, whether its orgunit is or not.
NotConfigured(org, aws, account) ==
    /\ aws.accounts[account].account_id # org.root_account_id
    /\ account \notin DOMAIN org.accounts
    /\ GetAssociation(aws.accounts[account]) # "root"

\* An account of AWS that is not configured and whose orgunit is not either.
WillBeOrphaned(org, aws, account) ==
    /\ aws.accounts[account].account_id # org.root_account_id
    /\ account \notin DOMAIN org.accounts
    /\ GetAssociation(aws.accounts[account]) # "root"
    /\ GetAssociation(aws.accounts[account]) \notin DOMAIN org.orgunits

RECURSIVE CompareExistingAssociations(_, _, _, _)
\* Organization._compare_account_associations, its loop over
\* self.aws_model.accounts
CompareExistingAssociations(org, aws, acts, names) ==
    IF names = <<>> THEN acts
    ELSE CompareExistingAssociations(
            org, aws,
            IF WillBeOrphaned(org, aws, Head(names))
            THEN AddAssociationToReport(acts, "account", Head(names), "root")
            ELSE acts,
            Tail(names))

\* Organization._add_orphaned_account_problem_to_report, over the loop of
\* _compare_account_associations: report['problems'], a key of the report
\* only when an account will be orphaned.
OrphanedAccountProblems(org, aws, orphaned) ==
    IF orphaned = {} THEN EmptyDict
    ELSE [k \in {"accounts"} |->
            [a \in orphaned |->
                <<Problem("will be orphaned by the removal of parent orgunit",
                          <<a, GetAssociation(aws.accounts[a])>>)>>]]

\* report['problems'] after compare_against_aws_model
ReportProblems(org, aws) ==
    IF ~aws.exists THEN EmptyDict
    ELSE OrphanedAccountProblems(org, aws,
            {a \in DOMAIN aws.accounts : WillBeOrphaned(org, aws, a)})

\* A comparison that plans the deletion of the accounts of AWS that the
\* model lacks, as _compare_orgunits does for orgunits.
CompareAccountsDeleting(org, aws, acts) ==
    LET planned == CompareExistingAssociations(org, aws,
                        CompareConfiguredAssociations(org, aws,
                            CompareAccountsFrom(org, aws, acts, AccountNames(org)),
                            AccountNames(org)),
                        AccountNames(aws))
        unknown == DOMAIN aws.accounts \ DOMAIN org.accounts
    IN  IF unknown = {} THEN planned
        ELSE Put(planned, "accounts",
                 [n \in DOMAIN Get(planned, "accounts", EmptyDict) \cup unknown |->
                    IF n \in unknown THEN [action |-> "delete"]
                    ELSE planned["accounts"][n]])

\* Organization._compare_accounts
CompareAccounts(org, aws, acts) ==
    CompareExistingAssociations(org, aws,
        CompareConfiguredAssociations(org, aws,
            CompareAccountsFrom(org, aws, acts, AccountNames(org)),
            AccountNames(org)),
        AccountNames(aws))

RECURSIVE CompareOrgunitsFrom(_, _, _, _)
\* Organization._compare_orgunits, its loop over self.orgunits
CompareOrgunitsFrom(org, aws, acts, names) ==
    IF names = <<>> THEN acts
    ELSE LET orgunit == Head(names)
             configured == RenderComparableEntity(org.orgunits[orgunit],
                                                  ComparableOrgunitAttributes)
             existing == RenderComparableEntity(aws.orgunits[orgunit],
                                                ComparableOrgunitAttributes)
             next ==
                IF orgunit \notin DOMAIN aws.orgunits
                THEN AddActionToReport(acts, "orgunits", orgunit, "create")
                ELSE IF DeepDiff(configured, existing)
                THEN AddActionToReport(acts, "orgunits", orgunit, "update")
                ELSE acts
         IN  CompareOrgunitsFrom(org, aws, next, Tail(names))

RECURSIVE CompareOrgunitsDeleted(_, _, _, _)
\* Organization._compare_orgunits, its loop over self.aws_model.orgunits
CompareOrgunitsDeleted(org, aws, acts, names) ==
    IF names = <<>> THEN acts
    ELSE CompareOrgunitsDeleted(
            org, aws,
            IF Head(names) \notin DOMAIN org.orgunits
            THEN AddActionToReport(acts, "orgunits", Head(names), "delete")
            ELSE acts,
            Tail(names))

RECURSIVE CompareOrgunitAssociations(_, _, _, _)
\* Organization._compare_orgunit_associations
CompareOrgunitAssociations(org, aws, acts, names) ==
    IF names = <<>> THEN acts
    ELSE LET orgunit == Head(names)
             configured_parent == GetAssociation(org.orgunits[orgunit])
             next ==
                IF orgunit \notin DOMAIN aws.orgunits
                THEN AddAssociationToReport(acts, "orgunit", orgunit, configured_parent)
                ELSE IF configured_parent # GetAssociation(aws.orgunits[orgunit])
                THEN AddAssociationToReport(acts, "orgunit", orgunit, configured_parent)
                ELSE acts
         IN  CompareOrgunitAssociations(org, aws, next, Tail(names))

\* Organization._compare_orgunits
CompareOrgunits(org, aws, acts) ==
    CompareOrgunitAssociations(org, aws,
        CompareOrgunitsDeleted(org, aws,
            CompareOrgunitsFrom(org, aws, acts, OrgunitNames(org)),
            OrgunitNames(aws)),
        OrgunitNames(org))

RECURSIVE ComparePoliciesFrom(_, _, _, _)
\* Organization._compare_policies, its loop over self.policies
ComparePoliciesFrom(org, aws, acts, names) ==
    IF names = <<>> THEN acts
    ELSE LET policy == Head(names)
             configured == RenderComparableEntity(org.policies[policy],
                                                  ComparablePolicyAttributes)
             existing == RenderComparableEntity(aws.policies[policy],
                                                ComparablePolicyAttributes)
             next ==
                IF Get(org.policies[policy], "aws_managed", FALSE) THEN acts
                ELSE IF policy \notin DOMAIN aws.policies
                THEN AddActionToReport(acts, "policies", policy, "create")
                ELSE IF DeepDiff(configured, existing)
                THEN AddActionToReport(acts, "policies", policy, "update")
                ELSE acts
         IN  ComparePoliciesFrom(org, aws, next, Tail(names))

RECURSIVE ComparePoliciesDeleted(_, _, _, _)
\* Organization._compare_policies, its loop over self.aws_model.policies
ComparePoliciesDeleted(org, aws, acts, names) ==
    IF names = <<>> THEN acts
    ELSE LET policy == Head(names)
         IN  ComparePoliciesDeleted(
                org, aws,
                IF policy \notin DOMAIN org.policies
                    /\ ~Get(aws.policies[policy], "aws_managed", FALSE)
                THEN AddActionToReport(acts, "policies", policy, "delete")
                ELSE acts,
                Tail(names))

\* Organization._compare_policies
ComparePolicies(org, aws, acts) ==
    ComparePoliciesDeleted(org, aws,
        ComparePoliciesFrom(org, aws, acts, PolicyNames(org)),
        PolicyNames(aws))

\* A comparison that goes on to the accounts, orgunits and policies when
\* there is no organization.
CompareWithoutReturn(org, aws) ==
    ComparePolicies(org, aws,
        CompareOrgunits(org, aws,
            CompareAccounts(org, aws,
                IF ~aws.exists
                THEN AddActionToReport(EmptyDict, "organizations", "organization",
                                       "create")
                ELSE EmptyDict)))

\* Organization.compare_against_aws_model: report['actions'].  Both models
\* carry the parent_references of get_orgunit_hierarchy and validate.
CompareAgainstAwsModel(org, aws) ==
    IF ~aws.exists
    THEN AddActionToReport(EmptyDict, "organizations", "organization", "create")
    ELSE ComparePolicies(org, aws,
            CompareOrgunits(org, aws,
                CompareAccounts(org, aws, EmptyDict)))

\* A comparison that compares the policies before the accounts and the
\* orgunits.
PoliciesComparedFirst(org, aws, acts, i) ==
    CASE i = 1 -> ComparePolicies(org, aws, acts)
      [] i = 2 -> CompareAccountsFrom(org, aws, acts, AccountNames(org))
      [] i = 3 -> CompareExistingAssociations(org, aws,
                    CompareConfiguredAssociations(org, aws, acts, AccountNames(org)),
                    AccountNames(aws))
      [] i = 4 -> CompareOrgunitsDeleted(org, aws,
                    CompareOrgunitsFrom(org, aws, acts, OrgunitNames(org)),
                    OrgunitNames(aws))
      [] i = 5 -> CompareOrgunitAssociations(org, aws, acts, OrgunitNames(org))

\* The comparisons of compare_against_aws_model for an organization that
\* exists, one after the other: each adds its actions to acts.
Comparison(org, aws, acts, i) ==
    CASE i = 1 -> CompareAccountsFrom(org, aws, acts, AccountNames(org))
      [] i = 2 -> CompareExistingAssociations(org, aws,
                    CompareConfiguredAssociations(org, aws, acts, AccountNames(org)),
                    AccountNames(aws))
      [] i = 3 -> CompareOrgunitsDeleted(org, aws,
                    CompareOrgunitsFrom(org, aws, acts, OrgunitNames(org)),
                    OrgunitNames(aws))
      [] i = 4 -> CompareOrgunitAssociations(org, aws, acts, OrgunitNames(org))
      [] i = 5 -> ComparePolicies(org, aws, acts)

\* _add_action_to_report and _add_association_to_report: the key a
\* comparison added to report['actions'], as a list (each adds one at most).
KeyInserted(before, after) ==
    IF DOMAIN after = DOMAIN before THEN <<>>
    ELSE <<CHOOSE k \in DOMAIN after : k \notin DOMAIN before>>

RECURSIVE KindsInsertedFrom(_, _, _, _)
RECURSIVE KindsInsertedBy(_, _, _, _, _)

\* The keys the comparisons from the i-th on add to acts, in order.
KindsInsertedFrom(org, aws, acts, i) ==
    IF i > 5 THEN <<>>
    ELSE KindsInsertedBy(org, aws, acts, Comparison(org, aws, acts, i), i)

KindsInsertedBy(org, aws, before, after, i) ==
    KeyInserted(before, after) \o KindsInsertedFrom(org, aws, after, i + 1)

\* Organization.compare_against_aws_model: the keys of report['actions'],
\* an OrderedDict, in its order.
KindsInserted(org, aws) ==
    IF ~aws.exists THEN <<"organizations">>
    ELSE KindsInsertedFrom(org, aws, EmptyDict, 1)

----------------------------------------------------------------------------
(* The calls of OrganizationService during converge.  A run is threaded    *)
(* through a record w:                                                     *)
(*   prov, upd   the service's state and self.updated_model                *)
(*   changes     report['changes']                                         *)
(*   calls       the log of mutating API calls                             *)
(*   n, fail     mutating calls issued in this phase, and which of them    *)
(*               the service answers with AccessDeniedException            *)
(*   code        the answer to the last call                               *)
(*   err         the exception that is propagating ("none": none); once    *)
(*               one propagates, no later statement executes               *)
(*   ret         the value the last service method returned                *)

NoChange == EmptyDict

World(p, upd, chg, log, fail) ==
    [prov |-> p, upd |-> upd, changes |-> chg, calls |-> log, n |-> 0,
     fail |-> fail, code |-> "ok", err |-> "none", ret |-> NoChange]

Raise(w, exception) == [w EXCEPT !.err = exception]

\* What holds of the service at the moment a call is issued.
Observe(w, op, name, arg) ==
    [in_use |-> op = "delete_policy" /\ ProvPolicyAttached(w.prov, arg.PolicyId),
     to_root |-> op = "move_account" /\ arg.DestinationParentId = RootParentId,
     not_empty |-> op = "delete_organizational_unit"
                    /\ ProvOuNotEmpty(w.prov, arg.OrganizationalUnitId),
     parent_current |->
        op = "create_organizational_unit" =>
            LET parent == GetAssociation(declared.orgunits[name])
            IN  IF parent = "root" THEN arg.ParentId = RootParentId
                ELSE /\ \E k \in DOMAIN w.prov.ous :
                            /\ w.prov.ous[k].name = parent
                            /\ w.prov.ous[k].id = arg.ParentId
                     /\ parent \in DOMAIN w.upd.orgunits
                     /\ w.upd.orgunits[parent].id = arg.ParentId]

\* The world after AWS answered `code` to the call.
Issued(w, phase, op, name, arg, code) ==
    [w EXCEPT
        !.n = @ + 1,
        !.code = code,
        !.prov = IF code = "ok" THEN ProvEffect(@, op, arg) ELSE @,
        !.calls = Append(@, [phase |-> phase, op |-> op, name |-> name,
                             code |-> code, seen |-> Observe(w, op, name, arg)])]

\* self.client.<op>(**arg), issued by the statement `phase` of converge for
\* the entity `name`.  The call is not issued when an exception propagates.
Api(w, phase, op, name, arg) ==
    IF w.err # "none" THEN w
    ELSE Issued(w, phase, op, name, arg,
                IF w.n + 1 \in w.fail THEN "AccessDeniedException"
                  ELSE ProvCode(w.prov, op, arg))

\* A ClientError outside a try block propagates.
Raised(w) == IF w.err = "none" /\ w.code # "ok" THEN Raise(w, w.code) ELSE w

Call(w, phase, op, name, arg) == Raised(Api(w, phase, op, name, arg))

\* A loader run on self.updated_model.
Reloaded(w, loaded) ==
    IF w.err # "none" THEN w
    ELSE [w EXCEPT !.upd = loaded.org, !.err = loaded.err]

\* self.updated_model.reload_orgunits(org_service)
ReloadOrgunitsIn(w) == Reloaded(w, ReloadOrgunits(w.upd, w.prov))

\* self.updated_model.reload_policies(org_service)
ReloadPoliciesIn(w) == Reloaded(w, ReloadPolicies(w.upd, w.prov))

\* org_service.load_policies(organization=self.updated_model)
LoadPoliciesIn(w) == Reloaded(w, LoadPolicies(w.upd, w.prov))

\* Organization._add_changes_to_report: entries already reported win.
AddChangesToReport(chg, change_type, new) ==
    LET old == Get(chg, change_type, EmptyDict)
    IN  Put(chg, change_type,
            [k \in DOMAIN new \cup DOMAIN old |->
                IF k \in DOMAIN old THEN old[k] ELSE new[k]])

Report(w, change_type, name, change) ==
    IF w.err # "none" THEN w
    ELSE [w EXCEPT !.changes =
            AddChangesToReport(@, change_type, [k \in {name} |-> change])]

\* OrganizationService._create_organization after create_organization:
\* _get_root_parent_id and enable_policy_type
EnablePolicyType(w, org, phase) ==
    IF w.err # "none" THEN w
    ELSE IF RootParentsOf(w.prov, org.root_account_id) = <<>>
    THEN Raise(w, "IndexError")
    ELSE Call(w, phase, "enable_policy_type", "organization",
              [RootId |-> RootParentsOf(w.prov, org.root_account_id)[1],
               PolicyType |-> "SERVICE_CONTROL_POLICY"])

\* upsert_organization that creates the organization and leaves the policy
\* type as it is
UpsertOrganizationOnly(w, org, phase) ==
    Report(Call(w, phase, "create_organization", "organization",
                [FeatureSet |-> org.featureset]),
           "organizations", "organization", [change |-> "created"])

\* OrganizationService._create_organization and upsert_organization
UpsertOrganization(w, org, phase) ==
    Report(EnablePolicyType(
                Call(w, phase, "create_organization", "organization",
                     [FeatureSet |-> org.featureset]),
                org, phase),
           "organizations", "organization", [change |-> "created"])

\* OrganizationService._create_policy / _update_policy by upsert_policy
UpsertPolicy(w, org, phase, policy_name, action) ==
    LET policy == org.policies[policy_name]
        create == Call(w, phase, "create_policy", policy_name,
                       [Content |-> policy.document.content,
                        Description |-> policy.description,
                        Name |-> policy.name, Type |-> "SERVICE_CONTROL_POLICY"])
        update == Call(w, phase, "update_policy", policy_name,
                       [Content |-> policy.document.content,
                        Description |-> policy.description,
                        Name |-> policy.name,
                        PolicyId |-> w.upd.policies[policy_name].id])
    IN  IF w.err # "none" THEN w
        ELSE IF "content" \notin DOMAIN policy.document THEN Raise(w, "KeyError")
        ELSE IF action = "create"
        THEN Report(create, "policies", policy_name,
                    [change |-> "created", id |-> PolicyId(policy_name)])
        ELSE IF action = "update"
        THEN IF policy_name \notin DOMAIN w.upd.policies THEN Raise(w, "KeyError")
             ELSE Report(update, "policies", policy_name,
                         [change |-> "updated", id |-> w.upd.policies[policy_name].id])
        ELSE w

RECURSIVE AttachNew(_, _, _, _, _, _)
\* OrganizationService.update_entity_policy_attachments, its first loop
AttachNew(w, phase, target_id, old_policies, new_policies, i) ==
    IF i > Len(new_policies) \/ w.err # "none" THEN w
    ELSE LET policy == new_policies[i]
             next ==
                IF Contains(old_policies, policy) THEN w
                ELSE IF policy \notin DOMAIN w.upd.policies THEN Raise(w, "KeyError")
                ELSE Call(w, phase, "attach_policy", policy,
                          [PolicyId |-> w.upd.policies[policy].id,
                           TargetId |-> target_id])
         IN  AttachNew(next, phase, target_id, old_policies, new_policies, i + 1)

RECURSIVE DetachOld(_, _, _, _, _, _)
\* OrganizationService.update_entity_policy_attachments, its second loop
DetachOld(w, phase, target_id, old_policies, new_policies, i) ==
    IF i > Len(old_policies) \/ w.err # "none" THEN w
    ELSE LET policy == old_policies[i]
             next ==
                IF Contains(new_policies, policy) THEN w
                ELSE IF policy \notin DOMAIN w.upd.policies THEN Raise(w, "KeyError")
                ELSE Call(w, phase, "detach_policy", policy,
                          [PolicyId |-> w.upd.policies[policy].id,
                           TargetId |-> target_id])
         IN  DetachOld(next, phase, target_id, old_policies, new_policies, i + 1)

\* update_entity_policy_attachments with its two loops in the other order
DetachThenAttach(w, phase, target_id, old_policies, new_policies) ==
    AttachNew(DetachOld(w, phase, target_id, old_policies, new_policies, 1),
              phase, target_id, old_policies, new_policies, 1)

\* OrganizationService.update_entity_policy_attachments
UpdateEntityPolicyAttachments(w, phase, target_id, old_policies, new_policies) ==
    DetachOld(AttachNew(w, phase, target_id, old_policies, new_policies, 1),
              phase, target_id, old_policies, new_policies, 1)

\* OrganizationService.update_orgunit_policies
UpdateOrgunitPolicies(w, org, phase, orgunit_name) ==
    IF w.err # "none" THEN w
    ELSE IF orgunit_name \notin DOMAIN w.upd.orgunits THEN Raise(w, "KeyError")
    ELSE LET policies == Get(org.orgunits[orgunit_name], "policies", <<>>)
             aws_model_policies == Get(w.upd.orgunits[orgunit_name], "policies", <<>>)
         IN  IF policies # aws_model_policies
             THEN UpdateEntityPolicyAttachments(
                    w, phase, w.upd.orgunits[orgunit_name].id,
                    aws_model_policies, policies)
             ELSE w

\* A create_orgunit that takes the parent's id from aws_model, the model
\* loaded before converge.
CreateOrgunitUnderLoadedParent(w, org, aws, phase, orgunit_name, parent_name) ==
    IF w.err # "none" THEN w
    ELSE IF parent_name # "root" /\ parent_name \notin DOMAIN aws.orgunits
    THEN Raise(w, "KeyError")
    ELSE Call(w, phase, "create_organizational_unit", orgunit_name,
              [ParentId |-> IF parent_name = "root" THEN aws.root_parent_id
                            ELSE aws.orgunits[parent_name].id,
               Name |-> org.orgunits[orgunit_name].name])

\* OrganizationService.create_orgunit
CreateOrgunitCall(w, org, aws, phase, orgunit_name, parent_name) ==
    IF w.err # "none" THEN w
    ELSE IF parent_name # "root" /\ parent_name \notin DOMAIN w.upd.orgunits
    THEN Raise(w, "KeyError")
    ELSE Call(w, phase, "create_organizational_unit", orgunit_name,
              [ParentId |-> IF parent_name = "root" THEN aws.root_parent_id
                            ELSE w.upd.orgunits[parent_name].id,
               Name |-> org.orgunits[orgunit_name].name])

\* except botocore.exceptions.ClientError of delete_orgunit: the errors it
\* takes for 'already deleted'
DeleteOrgunitAbsorbs(code) == code # "ok"

\* OrganizationService.delete_orgunit, after its call: ret is the changes
\* dict or None
DeleteOrgunitReturn(w, orgunit_id) ==
    IF w.code = "ok"
    THEN [w EXCEPT !.ret = [change |-> "deleted", id |-> orgunit_id]]
    ELSE IF DeleteOrgunitAbsorbs(w.code)
    THEN [w EXCEPT !.ret = NoChange]
    ELSE Raise(w, w.code)

\* OrganizationService.delete_orgunit
DeleteOrgunitCall(w, aws, phase, orgunit_name) ==
    IF w.err # "none" THEN w
    ELSE DeleteOrgunitReturn(
            Api(w, phase, "delete_organizational_unit", orgunit_name,
                [OrganizationalUnitId |-> aws.orgunits[orgunit_name].id]),
            aws.orgunits[orgunit_name].id)

\* OrganizationService.delete_policy
DeletePolicyCall(w, aws, phase, policy_name) ==
    IF w.err # "none" THEN w
    ELSE Report(Call(w, phase, "delete_policy", policy_name,
                     [PolicyId |-> aws.policies[policy_name].id]),
                "policies", policy_name,
                [change |-> "deleted", id |-> aws.policies[policy_name].id])

\* move_account without the comparison of the two parents
MoveAccountAlways(w, aws, phase, account_name, parent_name) ==
    IF w.err # "none" THEN w
    ELSE IF parent_name # "root" /\ parent_name \notin DOMAIN w.upd.orgunits
    THEN Raise(w, "KeyError")
    ELSE IF account_name \notin DOMAIN w.upd.accounts THEN Raise(w, "KeyError")
    ELSE IF account_name \notin DOMAIN w.prov.accounts
    THEN Raise(w, "ChildNotFoundException")
    ELSE [Call(w, phase, "move_account", account_name,
               [AccountId |-> w.upd.accounts[account_name].account_id,
                SourceParentId |-> w.prov.accounts[account_name].parent,
                DestinationParentId |->
                    IF parent_name = "root" THEN aws.root_parent_id
                    ELSE w.upd.orgunits[parent_name].id])
          EXCEPT !.ret = [action |-> "reassociated",
                          parent |-> IF parent_name = "root" THEN aws.root_parent_id
                                     ELSE w.upd.orgunits[parent_name].id]]

\* OrganizationService.move_account; ret is the changes dict ({} when the
\* account is already under the parent).  list_parents is a read.
MoveAccount(w, aws, phase, account_name, parent_name) ==
    IF w.err # "none" THEN w
    ELSE IF parent_name # "root" /\ parent_name \notin DOMAIN w.upd.orgunits
    THEN Raise(w, "KeyError")
    ELSE IF account_name \notin DOMAIN w.upd.accounts THEN Raise(w, "KeyError")
    ELSE LET dest_parent_id == IF parent_name = "root" THEN aws.root_parent_id
                               ELSE w.upd.orgunits[parent_name].id
             account_id == w.upd.accounts[account_name].account_id
         IN  IF account_name \notin DOMAIN w.prov.accounts
             THEN Raise(w, "ChildNotFoundException")
             ELSE LET source_parent_id == w.prov.accounts[account_name].parent
                  IN  IF dest_parent_id # source_parent_id
                      THEN [Call(w, phase, "move_account", account_name,
                                 [AccountId |-> account_id,
                                  SourceParentId |-> source_parent_id,
                                  DestinationParentId |-> dest_parent_id])
                            EXCEPT !.ret = [action |-> "reassociated",
                                            parent |-> dest_parent_id]]
                      ELSE [w EXCEPT !.ret = NoChange]

----------------------------------------------------------------------------
(* The phases of Organization.converge, each on the world of the run.      *)
(* org is the configured model, aws is self.aws_model, acts is             *)
(* report['actions'].                                                      *)

ActionsFor(acts, entity_type, order) ==
    Ordered(DOMAIN Get(acts, entity_type, EmptyDict), order)

\* Organization._create_organization
CreateOrganization(w, org, acts) ==
    IF "organizations" \in DOMAIN acts
    THEN IF acts.organizations.organization.action = "create"
         THEN UpsertOrganization(w, org, "create_organization")
         ELSE w
    ELSE w

RECURSIVE UpsertPoliciesFrom(_, _, _, _, _)
UpsertPoliciesFrom(w, org, acts, names, i) ==
    IF i > Len(names) \/ w.err # "none" THEN w
    ELSE UpsertPoliciesFrom(
            IF acts.policies[names[i]].action # "delete"
            THEN UpsertPolicy(w, org, "upsert_policies", names[i],
                              acts.policies[names[i]].action)
            ELSE w,
            org, acts, names, i + 1)

\* Organization._upsert_policies
UpsertPolicies(w, org, acts) ==
    IF "policies" \in DOMAIN acts
    THEN LoadPoliciesIn(UpsertPoliciesFrom(w, org, acts,
                            ActionsFor(acts, "policies", PolicyOrder), 1))
    ELSE w

\* Organization._upsert_root_policy_targets
UpsertRootPolicyTargets(w, org, aws) ==
    IF org.root_policies # aws.root_policies
    THEN Report(UpdateEntityPolicyAttachments(w, "upsert_root_policy_targets",
                    aws.root_parent_id, aws.root_policies, org.root_policies),
                "organizations", "root_policies", [action |-> "updated"])
    ELSE w

\* Organization._upsert_accounts, its accounts_to_create
AccountsToCreate(acts) ==
    SelectSeq(ActionsFor(acts, "accounts", AccountOrder),
              LAMBDA a : acts.accounts[a].action = "create")

RECURSIVE CreateAccountsFrom(_, _, _, _)
\* OrganizationService.create_accounts, its first loop
CreateAccountsFrom(w, org, accounts, i) ==
    IF i > Len(accounts) \/ w.err # "none" THEN w
    ELSE CreateAccountsFrom(
            Call(w, "upsert_accounts", "create_account", accounts[i],
                 [Email |-> org.accounts[accounts[i]].owner,
                  AccountName |-> org.accounts[accounts[i]].name]),
            org, accounts, i + 1)

\* status == 'failed' of create_accounts: a dict compared with a str
StatusIsFailed(status) == FALSE

\* OrganizationService.create_accounts, its second loop
AccountChange(status) ==
    LET change == IF status.State = "SUCCEEDED" THEN "created"
                  ELSE IF status.State = "FAILED" THEN "failed"
                  ELSE "unknown"
    IN  IF StatusIsFailed(status)
        THEN [change |-> change, reason |-> status.FailureReason]
        ELSE [change |-> change]

RECURSIVE RemoveAccountsFrom(_, _, _, _)
\* Organization._remove_accounts_from_orgunit
RemoveAccountsFrom(w, aws, accounts, i) ==
    IF i > Len(accounts) \/ w.err # "none" THEN w
    ELSE RemoveAccountsFrom(
            MoveAccount(w, aws, "upsert_orgunits", accounts[i], "root"),
            aws, accounts, i + 1)

RECURSIVE RemoveAccountsFromOrgunits(_, _, _, _)
\* Organization._rebuild_orgunits, its first loop
RemoveAccountsFromOrgunits(w, aws, names, i) ==
    IF i > Len(names) \/ w.err # "none" THEN w
    ELSE IF names[i] \notin DOMAIN w.upd.orgunits THEN Raise(w, "KeyError")
    ELSE RemoveAccountsFromOrgunits(
            RemoveAccountsFrom(w, aws,
                Get(w.upd.orgunits[names[i]], "accounts", <<>>), 1),
            aws, names, i + 1)

\* Organization._remove_orgunit, after delete_orgunit: if report and changes
NoteDeleted(w, orgunit_name, reported) ==
    IF reported /\ w.err = "none" /\ w.ret # NoChange
    THEN Report(w, "orgunits", orgunit_name, w.ret)
    ELSE w

RECURSIVE RemoveOrgunit(_, _, _, _, _)
RECURSIVE RemoveOrgunitsFrom(_, _, _, _, _, _)
\* Organization._remove_orgunit: the children first, then the orgunit
RemoveOrgunit(w, aws, phase, orgunit_name, reported) ==
    IF w.err # "none" THEN w
    ELSE NoteDeleted(
            DeleteOrgunitCall(
                RemoveOrgunitsFrom(w, aws, phase,
                    Get(aws.orgunits[orgunit_name], "child_orgunits", <<>>),
                    1, reported),
                aws, phase, orgunit_name),
            orgunit_name, reported)

RemoveOrgunitsFrom(w, aws, phase, names, i, reported) ==
    IF i > Len(names) \/ w.err # "none" THEN w
    ELSE RemoveOrgunitsFrom(RemoveOrgunit(w, aws, phase, names[i], reported),
                            aws, phase, names, i + 1, reported)

\* Organization._remove_orgunits
RemoveOrgunits(w, aws) ==
    RemoveOrgunitsFrom(w, aws, "upsert_orgunits",
        SelectSeq(OrgunitNames(aws),
                  LAMBDA o : aws.orgunits[o].parent_references = <<>>),
        1, FALSE)

\* Organization._create_orgunit, after create_orgunit: if report
NoteCreated(w, orgunit_name, orgunit_id, reported) ==
    IF reported
    THEN Report(w, "orgunits", orgunit_name,
                [change |-> "created", id |-> orgunit_id])
    ELSE w

RECURSIVE CreateOrgunit(_, _, _, _, _, _)
RECURSIVE CreateOrgunitsFrom(_, _, _, _, _, _, _)
\* Organization._create_orgunit: the orgunit, a reload, then its children
CreateOrgunit(w, org, aws, orgunit_name, parent_name, reported) ==
    IF w.err # "none" THEN w
    ELSE CreateOrgunitsFrom(
            ReloadOrgunitsIn(
                NoteCreated(
                    CreateOrgunitCall(w, org, aws, "upsert_orgunits",
                                      orgunit_name, parent_name),
                    orgunit_name, OrgunitId(w.prov.next_ou), reported)),
            org, aws, Get(org.orgunits[orgunit_name], "child_orgunits", <<>>),
            1, orgunit_name, reported)

CreateOrgunitsFrom(w, org, aws, names, i, parent_name, reported) ==
    IF i > Len(names) \/ w.err # "none" THEN w
    ELSE CreateOrgunitsFrom(
            CreateOrgunit(w, org, aws, names[i], parent_name, reported),
            org, aws, names, i + 1, parent_name, reported)

\* Organization._create_orgunits
CreateOrgunits(w, org, aws) ==
    CreateOrgunitsFrom(w, org, aws,
        SelectSeq(OrgunitNames(org),
                  LAMBDA o : org.orgunits[o].parent_references = <<>>),
        1, "root", FALSE)

RECURSIVE MoveAccountsInto(_, _, _, _, _)
\* Organization._rebuild_orgunits, the inner loop of its last loop
MoveAccountsInto(w, aws, orgunit_name, accounts, i) ==
    IF i > Len(accounts) \/ w.err # "none" THEN w
    ELSE MoveAccountsInto(
            IF accounts[i] \in DOMAIN w.upd.accounts
            THEN MoveAccount(w, aws, "upsert_orgunits", accounts[i], orgunit_name)
            ELSE w,
            aws, orgunit_name, accounts, i + 1)

RECURSIVE PopulateOrgunits(_, _, _, _, _)
\* Organization._rebuild_orgunits, its last loop
PopulateOrgunits(w, org, aws, names, i) ==
    IF i > Len(names) \/ w.err # "none" THEN w
    ELSE PopulateOrgunits(
            MoveAccountsInto(
                UpdateOrgunitPolicies(w, org, "upsert_orgunits", names[i]),
                aws, names[i], Get(org.orgunits[names[i]], "accounts", <<>>), 1),
            org, aws, names, i + 1)

\* _rebuild_orgunits with _create_orgunits called before _remove_orgunits
RebuildOrgunitsCreatingFirst(w, org, aws) ==
    PopulateOrgunits(
        ReloadPoliciesIn(
            ReloadOrgunitsIn(
                RemoveOrgunits(
                    CreateOrgunits(
                        RemoveAccountsFromOrgunits(w, aws, OrgunitNames(aws), 1),
                        org, aws),
                    aws))),
        org, aws, OrgunitNames(org), 1)

\* Organization._rebuild_orgunits
RebuildOrgunits(w, org, aws) ==
    PopulateOrgunits(
        ReloadPoliciesIn(
            ReloadOrgunitsIn(
                CreateOrgunits(
                    RemoveOrgunits(
                        RemoveAccountsFromOrgunits(w, aws, OrgunitNames(aws), 1),
                        aws),
                    org, aws))),
        org, aws, OrgunitNames(org), 1)

ActionToVerb(action) ==
    CASE action = "update" -> "updated"
      [] action = "create" -> "created"
      [] action = "delete" -> "deleted"

RECURSIVE ReportOrgunits(_, _, _, _)
\* Organization._upsert_orgunits, the first loop after the rebuild
ReportOrgunits(w, acts, names, i) ==
    IF i > Len(names) \/ w.err # "none" THEN w
    ELSE IF names[i] \notin DOMAIN w.upd.orgunits THEN Raise(w, "KeyError")
    ELSE ReportOrgunits(
            Report(w, "orgunits", names[i],
                   [change |-> ActionToVerb(acts.orgunits[names[i]].action),
                    id |-> w.upd.orgunits[names[i]].id]),
            acts, names, i + 1)

RECURSIVE ReportOrgunitAssociations(_, _, _, _)
\* Organization._upsert_orgunits, the second loop after the rebuild
ReportOrgunitAssociations(w, acts, names, i) ==
    IF i > Len(names) \/ w.err # "none" THEN w
    ELSE ReportOrgunitAssociations(
            Report(w, "orgunit_associations", names[i],
                   [change |-> "associated",
                    parent |-> acts.orgunit_associations[names[i]].parent]),
            acts, names, i + 1)

RECURSIVE CreateTopLevelOrgunits(_, _, _, _, _)
\* Organization._upsert_orgunits, the loop of its second branch
CreateTopLevelOrgunits(w, org, aws, names, i) ==
    IF i > Len(names) \/ w.err # "none" THEN w
    ELSE CreateTopLevelOrgunits(
            CreateOrgunit(w, org, aws, names[i],
                          GetAssociation(org.orgunits[names[i]]), TRUE),
            org, aws, names, i + 1)

\* Organization._upsert_orgunits, its orgunits_to_add
OrgunitsToAdd(acts) ==
    SelectSeq(ActionsFor(acts, "orgunits", OrgunitOrder),
              LAMBDA o : acts.orgunits[o].action = "create")

\* Organization._upsert_orgunits, its top_level_orgunits
TopLevelOrgunits(org, aws, acts) ==
    SelectSeq(OrgunitsToAdd(acts),
              LAMBDA o : \/ org.orgunits[o].parent_references = <<>>
                         \/ org.orgunits[o].parent_references[1]
                                \in DOMAIN aws.orgunits)

\* Organization._upsert_orgunits
UpsertOrgunits(w, org, aws, acts) ==
    IF Get(acts, "orgunit_associations", EmptyDict) # EmptyDict
    THEN ReportOrgunitAssociations(
            ReportOrgunits(RebuildOrgunits(w, org, aws), acts,
                           ActionsFor(acts, "orgunits", OrgunitOrder), 1),
            acts, ActionsFor(acts, "orgunit_associations", OrgunitOrder), 1)
    ELSE IF "orgunits" \in DOMAIN acts
    THEN ReloadOrgunitsIn(
            CreateTopLevelOrgunits(w, org, aws, TopLevelOrgunits(org, aws, acts), 1))
    ELSE w

\* Organization._update_account_associations, after move_account: if changes
NoteMoved(w, account_name) ==
    IF w.err = "none" /\ w.ret # NoChange
    THEN Report(w, "account_associations", account_name, w.ret)
    ELSE w

RECURSIVE UpdateAccountAssociationsFrom(_, _, _, _, _)
UpdateAccountAssociationsFrom(w, aws, acts, names, i) ==
    IF i > Len(names) \/ w.err # "none" THEN w
    ELSE UpdateAccountAssociationsFrom(
            NoteMoved(MoveAccount(w, aws, "update_account_associations", names[i],
                                  acts.account_associations[names[i]].parent),
                      names[i]),
            aws, acts, names, i + 1)

\* Organization._update_account_associations
UpdateAccountAssociations(w, aws, acts) ==
    IF "account_associations" \in DOMAIN acts
    THEN UpdateAccountAssociationsFrom(w, aws, acts,
            ActionsFor(acts, "account_associations", AccountOrder), 1)
    ELSE w

RECURSIVE DeleteOrgunitsFrom(_, _, _, _, _)
\* Organization._delete_orgunits, its loop with the list `deleted`
DeleteOrgunitsFrom(w, aws, names, i, deleted) ==
    IF i > Len(names) \/ w.err # "none" THEN w
    ELSE IF names[i] \in deleted
    THEN DeleteOrgunitsFrom(w, aws, names, i + 1, deleted)
    ELSE DeleteOrgunitsFrom(
            RemoveOrgunit(w, aws, "delete_orgunits", names[i], TRUE),
            aws, names, i + 1, deleted \cup {names[i]})

\* Organization._delete_orgunits
DeleteOrgunits(w, aws, acts) ==
    IF "orgunits" \in DOMAIN acts
    THEN DeleteOrgunitsFrom(w, aws,
            SelectSeq(ActionsFor(acts, "orgunits", OrgunitOrder),
                      LAMBDA o : acts.orgunits[o].action = "delete"),
            1, {})
    ELSE w

RECURSIVE DeletePoliciesFrom(_, _, _, _)
DeletePoliciesFrom(w, aws, names, i) ==
    IF i > Len(names) \/ w.err # "none" THEN w
    ELSE DeletePoliciesFrom(DeletePolicyCall(w, aws, "delete_policies", names[i]),
                            aws, names, i + 1)

\* Organization._delete_policies
DeletePolicies(w, aws, acts) ==
    IF "policies" \in DOMAIN acts
    THEN DeletePoliciesFrom(w, aws,
            SelectSeq(ActionsFor(acts, "policies", PolicyOrder),
                      LAMBDA n : acts.policies[n].action = "delete"), 1)
    ELSE w

----------------------------------------------------------------------------
(* Organization.dry_run and the configured models and AWS states the runs  *)
(* start from.                                                             *)

\* Organization.dry_run after raise_if_invalid and initialize_aws_model:
\* the validation of the AWS model and compare_against_aws_model.
Compared(org, aws) ==
    [org |-> org, aws |-> aws.org,
     actions |-> CompareAgainstAwsModel(org, aws.org),
     kinds |-> KindsInserted(org, aws.org),
     problems |-> [raised |-> EmptyDict, report |-> ReportProblems(org, aws.org),
                   aws_model |-> aws.problems],
     err |-> "none"]

\* No problem raised and none in the report.
NoProblems == [raised |-> EmptyDict, report |-> EmptyDict, aws_model |-> EmptyDict]

\* A dry run that loads the model from AWS before it validates its own.
PlannedLoadingFirst(valid, loaded) ==
    IF valid.problems # EmptyDict
    THEN [org |-> valid.org, aws |-> loaded.org, actions |-> EmptyDict,
          kinds |-> <<>>, problems |-> [NoProblems EXCEPT !.raised = valid.problems],
          err |-> "InvalidOrganizationException"]
    ELSE IF loaded.err # "none"
    THEN [org |-> valid.org, aws |-> loaded.org, actions |-> EmptyDict,
          kinds |-> <<>>, problems |-> NoProblems, err |-> loaded.err]
    ELSE Compared(valid.org, Validate(loaded.org))

\* Organization.dry_run on its validated model and on the model loaded from
\* AWS: raise_if_invalid, initialize_aws_model, compare_against_aws_model
Planned(valid, loaded) ==
    IF valid.problems # EmptyDict
    THEN [org |-> valid.org, aws |-> EmptyDict, actions |-> EmptyDict,
          kinds |-> <<>>, problems |-> [NoProblems EXCEPT !.raised = valid.problems],
          err |-> "InvalidOrganizationException"]
    ELSE IF loaded.err # "none"
    THEN [org |-> valid.org, aws |-> loaded.org, actions |-> EmptyDict,
          kinds |-> <<>>, problems |-> NoProblems, err |-> loaded.err]
    ELSE Compared(valid.org, Validate(loaded.org))

\* Organization.dry_run: [org, aws, actions, err], the configured model and
\* self.aws_model after it, report['actions'], and the exception it raised.
DryRunOf(org, p) == Planned(Validate(org), Load(NewOrganization("aws"), p))

\* The orgunit trees of a model: each orgunit with its child_orgunits.
OrgunitShapes ==
    {sh \in UNION {[S -> {<<>>, <<"ou_b">>}] : S \in SUBSET {"ou_a", "ou_b"}} :
        \A n \in DOMAIN sh : sh[n] # <<>> => n = "ou_a" /\ "ou_b" \in DOMAIN sh}

\* The 'policies' of an entity: "none" (the dict has no such key), [] or
\* [pol_a].
PolicyKeys == {"none", "empty", "pol_a"}

PolicyList(key) ==
    IF key \in {"none", "empty"} THEN <<>> ELSE <<key>>

WithPolicies(entity, key) ==
    IF key = "none" THEN entity ELSE Put(entity, "policies", PolicyList(key))

\* A configured Organization: the orgunit tree sh, acct_a and acct_b under
\* the orgunits place_a and place_b ("absent": not configured), the policy
\* pol_a configured or not, and the policies of ou_a, acct_a and the root.
Configured(sh, place_a, place_b, has_policy, ou_policies, acct_policies, root_policies) ==
    LET placed(o) == SelectSeq(<<"acct_a", "acct_b">>,
                        LAMBDA a : (IF a = "acct_a" THEN place_a ELSE place_b) = o)
        orgunit(o) == WithPolicies([name |-> o, child_orgunits |-> sh[o],
                                    accounts |-> placed(o)],
                                   IF o = "ou_a" THEN ou_policies ELSE "none")
        member(a) == WithPolicies([name |-> a, owner |-> a],
                                  IF a = "acct_a" THEN acct_policies ELSE "none")
        members == {a \in {"acct_a"} : place_a # "absent"}
                   \cup {a \in {"acct_b"} : place_b # "absent"}
    IN  [NewOrganization("config") EXCEPT
            !.featureset = "ALL",
            !.orgunits = [o \in DOMAIN sh |-> orgunit(o)],
            !.accounts = [a \in members \cup {"master"} |->
                            IF a = "master"
                            THEN [name |-> a, owner |-> a, account_id |-> RootAccountId]
                            ELSE member(a)],
            !.policies = [n \in {m \in {"pol_a"} : has_policy} |->
                            [name |-> n, description |-> "scp",
                             document |-> [content |-> "v1"]]],
            !.root_policies = PolicyList(root_policies)]

\* The orgunits an account can be configured under in the tree sh.
Placements(sh, places) == {o \in places : o \in {"absent", "root"} \cup DOMAIN sh}

ConfiguredFrom(shapes, places_a, places_b, has, ou_keys, acct_keys, root_keys) ==
    UNION {{Configured(sh, place_a, place_b, has_policy, ou_policies, acct_policies,
                       root_policies) :
                place_a \in Placements(sh, places_a),
                place_b \in Placements(sh, places_b),
                has_policy \in has, ou_policies \in ou_keys,
                acct_policies \in acct_keys, root_policies \in root_keys} :
           sh \in shapes}

\* A state of AWS Organizations: no organization, or one with the orgunit
\* tree sh, acct_a under place_a, and pol_a with the content `content`
\* ("absent": no such policy) attached to the targets in `targets`.
Existing(sh, place_a, content, targets) ==
    LET k(o) == IndexOf(OrgunitOrder, o)
        parentOf(o) == IF \E q \in DOMAIN sh : Contains(sh[q], o)
                       THEN OrgunitId(k(CHOOSE q \in DOMAIN sh : Contains(sh[q], o)))
                       ELSE RootParentId
        idOf(t) == IF t = "root" THEN RootParentId
                   ELSE IF t = "acct_a" THEN AccountId(t) ELSE OrgunitId(k(t))
        account(a) == [id |-> AccountId(a), name |-> a, email |-> a,
                       parent |-> IF a = "master" \/ place_a = "root"
                                  THEN RootParentId ELSE OrgunitId(k(place_a))]
    IN  [NoProvider EXCEPT
            !.exists = TRUE, !.featureset = "ALL", !.scp_enabled = TRUE,
            !.accounts = [a \in {"master"} \cup {b \in {"acct_a"} : place_a # "absent"}
                            |-> account(a)],
            !.ous = [j \in {k(o) : o \in DOMAIN sh} |->
                        [id |-> OrgunitId(j), name |-> OrgunitOrder[j],
                         parent |-> parentOf(OrgunitOrder[j])]],
            !.next_ou = Len(OrgunitOrder) + 1,
            !.policies = [n \in {m \in {"pol_a"} : content # "absent"} |->
                            [id |-> PolicyId(n), name |-> n, description |-> "scp",
                             content |-> content, aws_managed |-> FALSE]],
            !.attachments = {<<PolicyId("pol_a"), idOf(t)>> : t \in targets}]

ExistingFrom(shapes, places_a, contents, target_sets) ==
    {Existing(sh, place_a, content, targets) :
        sh \in shapes, place_a \in places_a, content \in contents,
        targets \in target_sets}

\* The states of AWS that can exist: an account is under the root or an
\* orgunit there is, a policy is attached to targets there are.
WellFormed(p) ==
    /\ \A a \in DOMAIN p.accounts : p.accounts[a].parent \in ProvParentIds(p)
    /\ \A t \in p.attachments : t[1] \in ProvPolicyIds(p) /\ t[2] \in ProvTargetIds(p)

\* The runs start from a configured model and a state of AWS of one of two
\* families: every pair of orgunit trees and account placements without
\* policies, and every configuration and attachment of pol_a on a tree of
\* ou_a with or without ou_b.
HierarchyRuns ==
    ConfiguredFrom(OrgunitShapes, {"absent", "ou_a", "ou_b"}, {"absent", "ou_a"},
                   {FALSE}, {"none"}, {"none"}, {"empty"})
    \X ({NoProvider} \cup
        {p \in ExistingFrom(OrgunitShapes, {"absent", "root", "ou_a", "ou_b"},
                            {"absent"}, {{}}) : WellFormed(p)})

PolicyShapes == {sh \in OrgunitShapes : "ou_a" \in DOMAIN sh /\ sh["ou_a"] = <<>>}

PolicyRuns ==
    ConfiguredFrom(PolicyShapes, {"absent", "ou_a"}, {"absent"},
                   BOOLEAN, PolicyKeys, {"none", "pol_a"}, {"empty", "pol_a"})
    \X {p \in ExistingFrom(PolicyShapes \cup {EmptyDict}, {"absent", "ou_a"},
                           {"absent", "v1", "v2"},
                           {{}, {"root"}, {"ou_a"}, {"acct_a"}}) : WellFormed(p)}

Runs == HierarchyRuns \cup PolicyRuns

----------------------------------------------------------------------------
(* The configured models and AWS states a dry run alone starts from: the   *)
(* runs above, the models validate finds problems with, accounts that name *)
(* their AWS account, policies managed by AWS, and the feature sets.       *)

\* 'aws_managed' of a configured policy: "none" (no such key), or the flag.
ManagedKeys == {"none", "managed"}

\* A policy dict of the configured model.
ConfiguredPolicy(name, description, managed) ==
    LET policy == [name |-> name, description |-> description,
                   document |-> [content |-> "v1"]]
    IN  IF managed = "none" THEN policy ELSE Put(policy, "aws_managed", TRUE)

\* The policies of a configured model: pol_a and FullAWSAccess, each
\* configured or not, with or without the flag, FullAWSAccess under the
\* description AWS gives it or another.
ConfiguredPolicies ==
    {chosen \in UNION {[S -> {"scp", "aws"} \X ManagedKeys] :
                        S \in SUBSET {"pol_a", "FullAWSAccess"}} :
        /\ "pol_a" \in DOMAIN chosen => chosen["pol_a"][1] = "scp"
        /\ "FullAWSAccess" \in DOMAIN chosen =>
                chosen["FullAWSAccess"] # <<"scp", "managed">>}

\* The configured model org with the feature set, acct_a naming its AWS
\* account when `invited`, and the policies chosen by `chosen`.
Variant(org, featureset, invited, chosen) ==
    [org EXCEPT
        !.featureset = featureset,
        !.accounts = [a \in DOMAIN @ |->
                        IF a = "acct_a" /\ invited
                        THEN Put(@[a], "account_id", AccountId(a)) ELSE @[a]],
        !.policies = [n \in DOMAIN chosen |->
                        ConfiguredPolicy(n, chosen[n][1], chosen[n][2])]]

\* The state p of AWS with the feature set and, when `managed` is not
\* "absent", the policy FullAWSAccess of AWS attached to those targets.
ExistingVariant(p, featureset, managed) ==
    [p EXCEPT
        !.featureset = featureset,
        !.policies = IF managed = "absent" THEN @
                     ELSE Put(@, "FullAWSAccess",
                              [id |-> PolicyId("FullAWSAccess"),
                               name |-> "FullAWSAccess", description |-> "aws",
                               content |-> "v1", aws_managed |-> TRUE]),
        !.attachments = IF managed = "attached"
                        THEN @ \cup {<<PolicyId("FullAWSAccess"), t>> :
                                        t \in ProvTargetIds(p)}
                        ELSE @]

FeatureSets == {"ALL", "CONSOLIDATED_BILLING"}

\* The orgunit tree of ou_a alone.
OneOrgunit == {[o \in {"ou_a"} |-> <<>>]}

PolicyCases ==
    {Variant(org, featureset, invited, chosen) :
        org \in ConfiguredFrom(OneOrgunit, {"absent", "ou_a"}, {"absent"}, {FALSE},
                               {"none", "FullAWSAccess"}, {"none", "empty"}, {"empty"}),
        featureset \in FeatureSets, invited \in BOOLEAN,
        chosen \in ConfiguredPolicies}
    \X ({NoProvider} \cup
        {ExistingVariant(p, featureset, managed) :
            p \in {q \in ExistingFrom(OneOrgunit \cup {EmptyDict}, {"absent", "ou_a"},
                                      {"absent", "v1", "v2"}, {{}}) : WellFormed(q)},
            featureset \in FeatureSets,
            managed \in {"absent", "detached", "attached"}})

\* The lists an orgunit of a configuration document can carry: known and
\* unknown names, a name more than once.
AccountLists ==
    {<<>>, <<"acct_a">>, <<"acct_a", "acct_a">>, <<"acct_a", "acct_b">>,
     <<"ghost">>, <<"master">>}

ChildLists == {<<>>, <<"ou_b">>, <<"ou_c">>, <<"ou_b", "ou_c">>}

\* A configured model as the configuration gives it, valid or not: ou_a
\* and (when has_b) ou_b with their accounts, the children and the policies
\* of ou_a, the policies of acct_a, the master account naming its AWS
\* account or not, pol_a configured or not.
Unchecked(accounts_a, accounts_b, children_a, policies_a, acct_policies, master_id, has_b, has_policy) ==
    [NewOrganization("config") EXCEPT
        !.featureset = "ALL",
        !.orgunits =
            [o \in {"ou_a"} \cup {b \in {"ou_b"} : has_b} |->
                IF o = "ou_a"
                THEN WithPolicies([name |-> o, child_orgunits |-> children_a,
                                   accounts |-> accounts_a], policies_a)
                ELSE [name |-> o, child_orgunits |-> <<>>, accounts |-> accounts_b]],
        !.accounts =
            [a \in Range(AccountOrder) |->
                IF a = "master"
                THEN (IF master_id THEN [name |-> a, owner |-> a,
                                         account_id |-> RootAccountId]
                      ELSE [name |-> a, owner |-> a])
                ELSE WithPolicies([name |-> a, owner |-> a],
                                  IF a = "acct_a" THEN acct_policies ELSE "none")],
        !.policies = [n \in {m \in {"pol_a"} : has_policy} |->
                        ConfiguredPolicy(n, "scp", "none")]]

UncheckedCases ==
    {Unchecked(accounts_a, accounts_b, children_a, policies_a, acct_policies,
               master_id, has_b, has_policy) :
        accounts_a \in AccountLists,
        accounts_b \in {<<>>, <<"acct_a">>, <<"acct_b">>},
        children_a \in ChildLists,
        policies_a \in {"none", "pol_a", "FullAWSAccess", "pol_b"},
        acct_policies \in {"none", "pol_a", "FullAWSAccess"},
        master_id \in BOOLEAN, has_b \in BOOLEAN, has_policy \in BOOLEAN}
    \X {NoProvider, Existing([o \in {"ou_a"} |-> <<>>], "ou_a", "absent", {})}

\* The child_orgunits an orgunit of a configured model may list.
TangledLists == {<<>>, <<"ou_a">>, <<"ou_b">>, <<"ou_c">>, <<"ou_b", "ou_c">>}

\* A configured model of three orgunits that list each other as `children`
\* says, with both member accounts in ou_a when `placed`.
Tangled(children, placed) ==
    [NewOrganization("config") EXCEPT
        !.featureset = "ALL",
        !.orgunits =
            [o \in Range(OrgunitOrder) |->
                [name |-> o, child_orgunits |-> children[o],
                 accounts |-> IF o = "ou_a" /\ placed
                              THEN <<"acct_a", "acct_b">> ELSE <<>>]],
        !.accounts =
            [a \in Range(AccountOrder) |->
                IF a = "master"
                THEN [name |-> a, owner |-> a, account_id |-> RootAccountId]
                ELSE [name |-> a, owner |-> a]]]

TangledCases ==
    {Tangled(children, placed) :
        children \in [Range(OrgunitOrder) -> TangledLists], placed \in BOOLEAN}
    \X {NoProvider, Existing([o \in {"ou_a"} |-> <<>>], "ou_a", "absent", {})}

DryRuns == Runs \cup PolicyCases \cup UncheckedCases \cup TangledCases

----------------------------------------------------------------------------
(* The run: one dry_run, then one converge on its report.                  *)
(* pc is the statement of converge that executes next.                     *)

\* self.aws_model and self.updated_model before they are set
None == EmptyDict

Init ==
    /\ \E run \in Runs : declared = run[1] /\ prov = run[2]
    /\ aws_model = None
    /\ updated_model = None
    /\ actions = EmptyDict
    /\ kinds = <<>>
    /\ problems = NoProblems
    /\ changes = EmptyDict
    /\ pc = "dry_run"
    /\ calls = <<>>
    /\ error = "none"
    /\ faults = 0
    /\ creation_statuses = EmptyDict
    /\ waiting_accounts = <<>>
    /\ polls = 0
    /\ cancelled = FALSE
    /\ config = None
    /\ dumped = None
    /\ hierarchy = None
    /\ arguments = None

\* The state after dry_run returned `report` or raised.
DryRunReturned(report) ==
    /\ declared' = report.org
    /\ aws_model' = report.aws
    /\ actions' = report.actions
    /\ kinds' = report.kinds
    /\ problems' = report.problems
    /\ error' = report.err
    /\ pc' = IF report.err = "none" THEN "create_organization" ELSE "error"

\* Organization.dry_run, called by the interface before converge
DryRun ==
    /\ UNCHANGED <<config, dumped, hierarchy, arguments>>
    /\ pc = "dry_run"
    /\ DryRunReturned(DryRunOf(declared, prov))
    /\ UNCHANGED <<prov, updated_model, changes, calls, faults, creation_statuses,
                   waiting_accounts, polls, cancelled>>

\* A converge that deletes the policies before the orgunits.
ConvergeOrderPoliciesFirst ==
    <<"create_organization", "upsert_policies", "upsert_root_policy_targets",
      "upsert_accounts", "upsert_orgunits", "update_account_associations",
      "delete_policies", "delete_orgunits">>

\* The statements of Organization.converge, in the order it executes them.
ConvergeOrder ==
    <<"create_organization", "upsert_policies", "upsert_root_policy_targets",
      "upsert_accounts", "upsert_orgunits", "update_account_associations",
      "delete_orgunits", "delete_policies">>

\* The statement after `statement` ("done": converge returns the report).
Following(statement) ==
    IF IndexOf(ConvergeOrder, statement) < Len(ConvergeOrder)
    THEN ConvergeOrder[IndexOf(ConvergeOrder, statement) + 1]
    ELSE "done"

\* The calls of a statement that AWS may answer with a service error: any
\* of the k it issues, while fewer than MaxFaults were answered so.
FaultChoices(k) ==
    {F \in SUBSET (1..k) : Cardinality(F) <= MaxFaults - faults}

\* The state after a statement of converge left the world w.
Completed(w, statement) ==
    /\ prov' = w.prov
    /\ updated_model' = w.upd
    /\ changes' = w.changes
    /\ calls' = w.calls
    /\ error' = w.err
    /\ faults' = faults + Cardinality({i \in w.fail : i <= w.n})
    /\ pc' = IF w.err = "none" THEN Following(statement) ELSE "error"

\* One statement of converge that runs Run on the world.
Statement(statement, Run(_)) ==
    /\ pc = statement
    /\ \E fail \in FaultChoices(Run(World(prov, updated_model, changes, calls, {})).n) :
            Completed(Run(World(prov, updated_model, changes, calls, fail)), statement)

\* The plan says to create the organization (converge, its first test).
CreatesOrganization(acts) ==
    /\ "organizations" \in DOMAIN acts
    /\ "organization" \in DOMAIN acts.organizations
    /\ acts.organizations.organization.action = "create"

\* {**old, **new}
Merged(old, new) ==
    [k \in DOMAIN old \cup DOMAIN new |-> IF k \in DOMAIN new THEN new[k] ELSE old[k]]

\* The keys of {**old, **new}, in the order of the dict: those of old, then
\* those only new has.
MergedKeys(old, new) == old \o SelectSeq(new, LAMBDA k : ~Contains(old, k))

\* converge after _create_organization left the world w and the second
\* dry run returned `report`: the merged plan and the copy of aws_model.
Replanned(w, report) ==
    IF w.err # "none" \/ report.err # "none"
    THEN /\ Completed(IF w.err = "none" THEN Raise(w, report.err) ELSE w,
                      "create_organization")
         /\ UNCHANGED <<declared, aws_model, actions, kinds, problems>>
    ELSE /\ prov' = w.prov
         /\ changes' = w.changes
         /\ calls' = w.calls
         /\ error' = w.err
         /\ faults' = faults + Cardinality({i \in w.fail : i <= w.n})
         /\ pc' = Following("create_organization")
         /\ declared' = report.org
         /\ aws_model' = report.aws
         /\ actions' = Merged(actions, report.actions)
         /\ kinds' = MergedKeys(kinds, report.kinds)
         /\ problems' = problems
         /\ updated_model' = report.aws

Created(w) == Replanned(w, DryRunOf(declared, w.prov))

\* converge up to self.updated_model = copy.deepcopy(self.aws_model): the
\* organization is created when the plan says so, and the plan of a second
\* dry run is merged into the first.
ConvergeCreateOrganization ==
    /\ UNCHANGED <<config, dumped, hierarchy, arguments>>
    /\ pc = "create_organization"
    /\ IF CreatesOrganization(actions)
       THEN \E fail \in FaultChoices(2) :     \* its two calls
                Created(CreateOrganization(
                            World(prov, updated_model, changes, calls, fail),
                            declared, actions))
       ELSE /\ updated_model' = aws_model
            /\ pc' = Following("create_organization")
            /\ UNCHANGED <<declared, prov, aws_model, actions, kinds, problems, changes, calls, error,
                           faults>>
    /\ UNCHANGED <<creation_statuses, waiting_accounts, polls, cancelled>>

\* self._upsert_policies(report, org_service)
ConvergeUpsertPolicies ==
    /\ UNCHANGED <<config, dumped, hierarchy, arguments>>
    /\ Statement("upsert_policies", LAMBDA w : UpsertPolicies(w, declared, actions))
    /\ UNCHANGED <<declared, aws_model, actions, kinds, problems, creation_statuses, waiting_accounts,
                   polls, cancelled>>

\* self._upsert_root_policy_targets(report, org_service)
ConvergeUpsertRootPolicyTargets ==
    /\ UNCHANGED <<config, dumped, hierarchy, arguments>>
    /\ Statement("upsert_root_policy_targets",
                 LAMBDA w : UpsertRootPolicyTargets(w, declared, aws_model))
    /\ UNCHANGED <<declared, aws_model, actions, kinds, problems, creation_statuses, waiting_accounts,
                   polls, cancelled>>

\* self._upsert_accounts(report, org_service) up to the while loop of
\* _wait_on_account_creation: the create_account calls.
ConvergeUpsertAccounts ==
    /\ UNCHANGED <<config, dumped, hierarchy, arguments>>
    /\ pc = "upsert_accounts"
    /\ LET accounts == AccountsToCreate(actions)
       IN  IF accounts = <<>>
           THEN /\ pc' = Following("upsert_accounts")
                /\ UNCHANGED <<prov, updated_model, changes, calls, error, faults,
                               creation_statuses, waiting_accounts>>
           ELSE \E fail \in FaultChoices(Len(accounts)) :
                  LET w == CreateAccountsFrom(
                                World(prov, updated_model, changes, calls, fail),
                                declared, accounts, 1)
                  IN  /\ prov' = w.prov
                      /\ calls' = w.calls
                      /\ error' = w.err
                      /\ faults' = faults + Cardinality({i \in fail : i <= w.n})
                      /\ pc' = IF w.err = "none" THEN "wait_on_account_creation"
                               ELSE "error"
                      /\ creation_statuses' =
                            IF w.err # "none" THEN creation_statuses
                            ELSE [a \in Range(accounts) |->
                                    [Id |-> a, State |-> "IN_PROGRESS"]]
                      /\ waiting_accounts' =
                            IF w.err = "none" THEN accounts ELSE waiting_accounts
                      /\ UNCHANGED <<updated_model, changes>>
    /\ UNCHANGED <<declared, aws_model, actions, kinds, problems, polls, cancelled>>

\* The states describe_create_account_status reports.  AWS documents the
\* first three; the code takes any other for 'unknown'.
CreateAccountStates == {"IN_PROGRESS", "SUCCEEDED", "FAILED", "ERROR"}

\* What AWS may answer for the requests in `accounts`: a request leaves
\* IN_PROGRESS within MaxPolls polls.
StatusAnswers(p, accounts) ==
    {answer \in [Range(accounts) -> CreateAccountStates] :
        \A a \in Range(accounts) :
            answer[a] = "IN_PROGRESS" => p.requests[a].polls + 1 < MaxPolls}

\* AWS after it answered: the request is in its state, and the account of
\* a request that succeeded is under the root.
Answered(p, accounts, answer) ==
    [p EXCEPT
        !.requests = [a \in DOMAIN @ |->
            IF a \in Range(accounts)
            THEN [@[a] EXCEPT !.state = answer[a], !.polls = @ + 1,
                              !.reason = IF answer[a] = "FAILED"
                                         THEN "EMAIL_ALREADY_EXISTS" ELSE "none"]
            ELSE @[a]],
        !.accounts = [a \in DOMAIN @ \cup
                            {b \in Range(accounts) : answer[b] = "SUCCEEDED"} |->
            IF a \in DOMAIN @ THEN @[a]
            ELSE [id |-> AccountId(a), name |-> a, email |-> p.requests[a].email,
                  parent |-> RootParentId]]]

\* describe_create_account_status(...)['CreateAccountStatus']
CreateAccountStatus(p, a) ==
    IF p.requests[a].state = "FAILED"
    THEN [Id |-> a, State |-> "FAILED", FailureReason |-> p.requests[a].reason]
    ELSE [Id |-> a, State |-> p.requests[a].state]

\* A wait that gives up the accounts in progress once cancelled.
StillWaitingUnlessCancelled(accounts, statuses) ==
    IF cancelled THEN <<>>
    ELSE SelectSeq(accounts, LAMBDA a : statuses[a].State = "IN_PROGRESS")

\* A wait that goes on for every account that has not SUCCEEDED.
StillWaitingForSuccess(accounts, statuses) ==
    SelectSeq(accounts, LAMBDA a : statuses[a].State # "SUCCEEDED")

\* OrganizationService._wait_on_account_creation: the accounts it goes on
\* waiting for after a pass
StillWaiting(accounts, statuses) ==
    SelectSeq(accounts, LAMBDA a : statuses[a].State = "IN_PROGRESS")

\* creation_statuses after a pass on the waiting accounts
Described(p, statuses, accounts) ==
    [a \in DOMAIN statuses |->
        IF a \in Range(accounts) THEN CreateAccountStatus(p, a) ELSE statuses[a]]

\* The state after a pass in which AWS went to the state `answered`.
Polled(answered) ==
    /\ prov' = answered
    /\ creation_statuses' = Described(answered, creation_statuses, waiting_accounts)
    /\ waiting_accounts' =
            StillWaiting(waiting_accounts,
                         Described(answered, creation_statuses, waiting_accounts))
    /\ polls' = polls + Len(waiting_accounts)

\* OrganizationService._wait_on_account_creation, one pass of its while
\* loop: the sleep, a describe_create_account_status for each waiting
\* account, and the accounts still IN_PROGRESS.
WaitOnAccountCreation ==
    /\ UNCHANGED <<config, dumped, hierarchy, arguments>>
    /\ pc = "wait_on_account_creation"
    /\ waiting_accounts # <<>>
    /\ \E answer \in StatusAnswers(prov, waiting_accounts) :
            Polled(Answered(prov, waiting_accounts, answer))
    /\ UNCHANGED <<declared, aws_model, updated_model, actions, kinds, problems, changes, pc, calls,
                   error, faults, cancelled>>

\* The rest of create_accounts and of _upsert_accounts once the while loop
\* is left: the changes, and the reload of the accounts.
AccountsCreated ==
    /\ UNCHANGED <<config, dumped, hierarchy, arguments>>
    /\ pc = "wait_on_account_creation"
    /\ waiting_accounts = <<>>
    /\ LET created == [a \in DOMAIN creation_statuses |->
                            AccountChange(creation_statuses[a])]
           reloaded == ReloadAccounts(updated_model, prov)
       IN  /\ changes' = AddChangesToReport(changes, "accounts", created)
           /\ updated_model' = reloaded.org
           /\ error' = reloaded.err
           /\ pc' = IF reloaded.err = "none" THEN Following("upsert_accounts")
                    ELSE "error"
    /\ UNCHANGED <<declared, prov, aws_model, actions, kinds, problems, calls, faults,
                   creation_statuses, waiting_accounts, polls, cancelled>>

\* A cancellation is signalled while the accounts are polled.  Nothing in
\* _wait_on_account_creation or in its sleep reads such a signal.
Cancel ==
    /\ UNCHANGED <<config, dumped, hierarchy, arguments>>
    /\ pc = "wait_on_account_creation"
    /\ ~cancelled
    /\ cancelled' = TRUE
    /\ UNCHANGED <<declared, prov, aws_model, updated_model, actions, kinds, problems, changes, pc,
                   calls, error, faults, creation_statuses, waiting_accounts, polls>>

\* self._upsert_orgunits(report, org_service)
ConvergeUpsertOrgunits ==
    /\ UNCHANGED <<config, dumped, hierarchy, arguments>>
    /\ Statement("upsert_orgunits",
                 LAMBDA w : UpsertOrgunits(w, declared, aws_model, actions))
    /\ UNCHANGED <<declared, aws_model, actions, kinds, problems, creation_statuses, waiting_accounts,
                   polls, cancelled>>

\* self._update_account_associations(report, org_service)
ConvergeUpdateAccountAssociations ==
    /\ UNCHANGED <<config, dumped, hierarchy, arguments>>
    /\ Statement("update_account_associations",
                 LAMBDA w : UpdateAccountAssociations(w, aws_model, actions))
    /\ UNCHANGED <<declared, aws_model, actions, kinds, problems, creation_statuses, waiting_accounts,
                   polls, cancelled>>

\* self._delete_orgunits(report, org_service)
ConvergeDeleteOrgunits ==
    /\ UNCHANGED <<config, dumped, hierarchy, arguments>>
    /\ Statement("delete_orgunits", LAMBDA w : DeleteOrgunits(w, aws_model, actions))
    /\ UNCHANGED <<declared, aws_model, actions, kinds, problems, creation_statuses, waiting_accounts,
                   polls, cancelled>>

\* self._delete_policies(report, org_service)
ConvergeDeletePolicies ==
    /\ UNCHANGED <<config, dumped, hierarchy, arguments>>
    /\ Statement("delete_policies", LAMBDA w : DeletePolicies(w, aws_model, actions))
    /\ UNCHANGED <<declared, aws_model, actions, kinds, problems, creation_statuses, waiting_accounts,
                   polls, cancelled>>

Next ==
    \/ DryRun
    \/ ConvergeCreateOrganization
    \/ ConvergeUpsertPolicies
    \/ ConvergeUpsertRootPolicyTargets
    \/ ConvergeUpsertAccounts
    \/ WaitOnAccountCreation
    \/ AccountsCreated
    \/ Cancel
    \/ ConvergeUpsertOrgunits
    \/ ConvergeUpdateAccountAssociations
    \/ ConvergeDeleteOrgunits
    \/ ConvergeDeletePolicies

Spec == Init /\ [][Next]_vars

\* converge as it runs: the thread in _wait_on_account_creation sleeps and
\* takes its next pass, and create_accounts goes on once the loop is left.
WaitSpec ==
    Init /\ [][Next]_vars /\ WF_vars(WaitOnAccountCreation) /\ WF_vars(AccountsCreated)

\* A dry run alone, as the interface runs it without converging.
DryRunInit ==
    /\ \E run \in DryRuns : declared = run[1] /\ prov = run[2]
    /\ aws_model = None
    /\ updated_model = None
    /\ actions = EmptyDict
    /\ kinds = <<>>
    /\ problems = NoProblems
    /\ changes = EmptyDict
    /\ pc = "dry_run"
    /\ calls = <<>>
    /\ error = "none"
    /\ faults = 0
    /\ creation_statuses = EmptyDict
    /\ waiting_accounts = <<>>
    /\ polls = 0
    /\ cancelled = FALSE
    /\ config = None
    /\ dumped = None
    /\ hierarchy = None
    /\ arguments = None

DryRunSpec == DryRunInit /\ [][DryRun]_vars

\* The calls of the boto3 client that dry_run issues: those of
\* initialize_aws_model, none when dry_run did not reach it
DryRunCalls(report, p) ==
    IF report.aws = EmptyDict THEN <<>> ELSE LoadCalls(NewOrganization("aws"), p)

\* Organization.dry_run with the calls its boto3 client received
DryRunLogged ==
    /\ pc = "dry_run"
    /\ DryRunReturned(DryRunOf(declared, prov))
    /\ calls' = DryRunCalls(DryRunOf(declared, prov), prov)
    /\ UNCHANGED <<prov, updated_model, changes, faults, creation_statuses,
                   waiting_accounts, polls, cancelled, config, dumped, hierarchy,
                   arguments>>

DryRunLoggedSpec == DryRunInit /\ [][DryRunLogged]_vars

----------------------------------------------------------------------------
(* DefaultConfigLoader.  A configuration document is a dict with the keys  *)
(* root, featureset, version, provisioner, accounts, policies, orgunits;   *)
(* the orgunits of a document nest under the key 'orgunits'.  The loader   *)
(* builds entity objects: an object is the dict of its attributes with     *)
(* the key 'class'; the model code subscripts its entities as dicts.       *)

\* str(root_account_id): a root the document gives as a number is its digits
Str(x) == IF x[1] = "int" THEN <<"acct", x[2]>> ELSE x

\* [value, err]: what a call returned, or the exception it raised
Returned(value) == [value |-> value, err |-> "none"]
Failed(exception) == [value |-> EmptyDict, err |-> exception]

IsObject(entity) == "class" \in DOMAIN entity

\* DefaultConfigLoader._validate_each_parameter, for the required
\* parameters (the values of a document are of the expected types)
MissingParameter(entity_config, required) ==
    \E parameter \in required : parameter \notin DOMAIN entity_config

\* Class(**kwargs): a keyword that is no parameter of __init__ is a
\* TypeError
UnexpectedKeyword(kwargs, parameters) == ~(DOMAIN kwargs \subseteq parameters)

\* Account.__init__
Account(kwargs) ==
    [class |-> "Account", name |-> kwargs.name, owner |-> kwargs.owner,
     groups |-> Get(kwargs, "groups", <<>>),
     account_id |-> Get(kwargs, "accountid", NoId), source |-> "config"]

\* Policy.__init__
Policy(kwargs) ==
    [class |-> "Policy", name |-> kwargs.name,
     description |-> Get(kwargs, "description", "None"),
     document |-> Get(kwargs, "document", EmptyDict), source |-> "config"]

\* OrganizationalUnit.__init__
OrganizationalUnit(kwargs) ==
    [class |-> "OrganizationalUnit", name |-> kwargs.name,
     policies |-> Get(kwargs, "policies", <<>>),
     accounts |-> Get(kwargs, "accounts", <<>>),
     child_orgunits |-> Get(kwargs, "child_orgunits", <<>>),
     parent_references |-> <<>>, source |-> "config"]

\* Provisioner.__init__
Provisioner(kwargs) ==
    [class |-> "Provisioner", role |-> Get(kwargs, "role", "org-bootstrapper"),
     type |-> Get(kwargs, "provisioner_type", "cfn-stack-set")]

\* DefaultConfigLoader._load_provisioner ({} when the document has no
\* provisioner or an empty one)
LoadProvisioner(provisioner_config) ==
    Provisioner([k \in {IF c = "type" THEN "provisioner_type" ELSE c :
                            c \in DOMAIN provisioner_config \cap {"role", "type"}} |->
                    IF k = "role" THEN provisioner_config.role
                    ELSE provisioner_config.type])

\* The exception of the first entity of the list that the loop of a
\* _load_* method fails on, "none" when it fails on none.
FirstFailure(entity_configs, required, parameters) ==
    LET bad == SelectSeq(entity_configs, LAMBDA c :
                    MissingParameter(c, required) \/ UnexpectedKeyword(c, parameters))
    IN  IF bad = <<>> THEN "none"
        ELSE IF MissingParameter(bad[1], required)
        THEN "MissingRequiredParameterException" ELSE "TypeError"

\* DefaultConfigLoader._list_to_dict_by_names: [value, err], the value
\* being [by_name, keys], the dict and its keys in the order of insertion
ListToDictByNames(entities) ==
    IF \E i, j \in DOMAIN entities : i # j /\ entities[i].name = entities[j].name
    THEN Failed("DuplicateNamesException")
    ELSE Returned([by_name |-> [n \in {entities[i].name : i \in DOMAIN entities} |->
                                    entities[CHOOSE i \in DOMAIN entities :
                                                entities[i].name = n]],
                   keys |-> [i \in DOMAIN entities |-> entities[i].name]])

\* DefaultConfigLoader._load_accounts
LoadAccountsFromConfig(accounts_config) ==
    IF FirstFailure(accounts_config, {"name", "owner"},
                    {"name", "owner", "groups", "accountid", "regions"}) # "none"
    THEN Failed(FirstFailure(accounts_config, {"name", "owner"},
                             {"name", "owner", "groups", "accountid", "regions"}))
    ELSE ListToDictByNames([i \in DOMAIN accounts_config |-> Account(accounts_config[i])])

\* DefaultConfigLoader._validate_one_of_parameters on policy['document']
DocumentFailure(document) ==
    IF DOMAIN document \cap {"location", "content"} = {}
    THEN "MissingRequiredParameterException"
    ELSE IF Cardinality(DOMAIN document \cap {"location", "content"}) > 1
    THEN "MultipleParametersSpecifiedException" ELSE "none"

\* The exception of one pass of the loop of _load_policies
PolicyFailure(policy_config) ==
    IF MissingParameter(policy_config, {"name", "description", "document"})
    THEN "MissingRequiredParameterException"
    ELSE IF DocumentFailure(policy_config.document) # "none"
    THEN DocumentFailure(policy_config.document)
    ELSE IF UnexpectedKeyword(policy_config, {"name", "description", "document"})
    THEN "TypeError" ELSE "none"

\* DefaultConfigLoader._load_policies
LoadPoliciesFromConfig(policies_config) ==
    LET bad == SelectSeq(policies_config, LAMBDA c : PolicyFailure(c) # "none")
    IN  IF bad # <<>> THEN Failed(PolicyFailure(bad[1]))
        ELSE ListToDictByNames([i \in DOMAIN policies_config |->
                                    Policy(policies_config[i])])

\* The keyword arguments _load_orgunits_from_orgunit builds for an orgunit
OrgunitParameters(orgunit, parent_orgunit) ==
    Put([k \in DOMAIN orgunit \ {"orgunits"} |-> orgunit[k]],
        "parent_orgunit", parent_orgunit)

\* The rest of a pass of the loop of _load_orgunits_from_orgunit, the
\* orgunits nested in the orgunit being loaded: OrganizationalUnit(**...)
Instantiated(orgunit, parent_orgunit, child_orgunits) ==
    IF child_orgunits.err # "none" THEN child_orgunits
    ELSE IF UnexpectedKeyword(OrgunitParameters(orgunit, parent_orgunit),
                              {"name", "policies", "accounts", "child_orgunits"})
    THEN Failed("TypeError")
    ELSE Returned(child_orgunits.value
                  \o <<OrganizationalUnit(OrgunitParameters(orgunit, parent_orgunit))>>)

\* orgunits.append(...) after the rest of the list is loaded
Joined(first, rest) ==
    IF first.err # "none" THEN first
    ELSE IF rest.err # "none" THEN rest
    ELSE Returned(first.value \o rest.value)

RECURSIVE LoadOrgunitsFromOrgunit(_, _)

\* One pass of the loop of _load_orgunits_from_orgunit
LoadOneOrgunit(orgunit, parent_orgunit) ==
    IF MissingParameter(orgunit, {"name"})
    THEN Failed("MissingRequiredParameterException")
    ELSE Instantiated(orgunit, parent_orgunit,
            IF "orgunits" \in DOMAIN orgunit
            THEN LoadOrgunitsFromOrgunit(orgunit.orgunits, orgunit.name)
            ELSE Returned(<<>>))

\* DefaultConfigLoader._load_orgunits_from_orgunit: [value, err], the
\* value being the list of the OrganizationalUnit instances
LoadOrgunitsFromOrgunit(orgunits_config, parent_orgunit) ==
    IF orgunits_config = <<>> THEN Returned(<<>>)
    ELSE Joined(LoadOneOrgunit(Head(orgunits_config), parent_orgunit),
                IF LoadOneOrgunit(Head(orgunits_config), parent_orgunit).err # "none"
                THEN Returned(<<>>)
                ELSE LoadOrgunitsFromOrgunit(Tail(orgunits_config), parent_orgunit))

\* DefaultConfigLoader._load_orgunits
LoadOrgunitsFromConfig(orgunits_config) ==
    IF LoadOrgunitsFromOrgunit(orgunits_config, "None").err # "none"
    THEN LoadOrgunitsFromOrgunit(orgunits_config, "None")
    ELSE ListToDictByNames(LoadOrgunitsFromOrgunit(orgunits_config, "None").value)

\* What a _load_* method is not called for: the {} of Organization.__init__
NoEntities == Returned([by_name |-> EmptyDict, keys |-> <<>>])

\* load_organization_from_config before the entities are loaded:
\* Organization(root_account_id=config['root']), raw_config, featureset
\* and provisioner
OrganizationOf(config_document) ==
    Put(Put([NewOrganization("None") EXCEPT
                !.root_account_id = Str(config_document.root),
                !.featureset = Get(config_document, "featureset", "ALL")],
            "raw_config", config_document),
        "provisioner", LoadProvisioner(Get(config_document, "provisioner", EmptyDict)))

\* load_organization_from_config once the entities are loaded: the first
\* exception of the three loads, or the organization with its entities and
\* the order of the keys of its dicts
WithEntities(organization, accounts, policies, orgunits) ==
    IF accounts.err # "none" THEN Failed(accounts.err)
    ELSE IF policies.err # "none" THEN Failed(policies.err)
    ELSE IF orgunits.err # "none" THEN Failed(orgunits.err)
    ELSE Returned(
            Put([organization EXCEPT !.accounts = accounts.value.by_name,
                                     !.policies = policies.value.by_name,
                                     !.orgunits = orgunits.value.by_name],
                "keys", [accounts |-> accounts.value.keys,
                         policies |-> policies.value.keys,
                         orgunits |-> orgunits.value.keys]))

\* DefaultConfigLoader.load_organization_from_config: [value, err]
LoadOrganizationFromConfig(config_document) ==
    IF "root" \notin DOMAIN config_document THEN Failed("KeyError")
    ELSE WithEntities(OrganizationOf(config_document),
            IF "accounts" \in DOMAIN config_document
            THEN LoadAccountsFromConfig(config_document.accounts) ELSE NoEntities,
            IF "policies" \in DOMAIN config_document
            THEN LoadPoliciesFromConfig(config_document.policies) ELSE NoEntities,
            IF "orgunits" \in DOMAIN config_document
            THEN LoadOrgunitsFromConfig(config_document.orgunits) ELSE NoEntities)

----------------------------------------------------------------------------
(* Organization.validate and Organization.get_orgunit_hierarchy on any     *)
(* model, the models of the loader with their entity objects included.     *)

\* The keys of a dict of the model in the order of the dict: the order of
\* insertion for a model of the loader
Keys(org, kind, order) ==
    IF "keys" \in DOMAIN org THEN org.keys[kind] ELSE Ordered(DOMAIN org[kind], order)

\* entity[key] = ... and entity[key] on the entities of a dict of the
\* model: an object supports neither
Subscripted(entities) ==
    IF \E n \in DOMAIN entities : IsObject(entities[n]) THEN "TypeError" ELSE "none"

\* Organization.validate: [value, err], the value being [org, problems]
ValidateModel(org) ==
    IF Subscripted(org.orgunits) # "none" THEN Failed(Subscripted(org.orgunits))
    ELSE IF Subscripted(org.accounts) # "none" THEN Failed(Subscripted(org.accounts))
    ELSE Returned(Validate(org))

\* The first exception among the results of the list, "none" without one
FirstError(results) ==
    IF SelectSeq(results, LAMBDA r : r.err # "none") = <<>> THEN "none"
    ELSE SelectSeq(results, LAMBDA r : r.err # "none")[1].err

\* The list without the later occurrences of its elements: the keys of a
\* dict filled in the order of the list
RECURSIVE Deduped(_)
Deduped(s) ==
    IF s = <<>> THEN <<>>
    ELSE <<Head(s)>> \o Deduped(SelectSeq(Tail(s), LAMBDA x : x # Head(s)))

\* The dict _append_path leaves in root: 'orgunits' when the orgunit lists
\* child orgunits, 'accounts' when it lists accounts
PathNode(orgunit, below) ==
    LET children == Get(orgunit, "child_orgunits", <<>>)
        node == IF children = <<>> THEN EmptyDict
                ELSE [k \in {"orgunits"} |->
                        [c \in Range(children) |-> below[c].value]]
    IN  IF Get(orgunit, "accounts", <<>>) # <<>>
        THEN Put(node, "accounts", orgunit.accounts) ELSE node

RECURSIVE AppendPath(_, _, _)

\* The calls of _append_path for the child orgunits of an orgunit
PathsBelow(org, orgunit, depth) ==
    [c \in Range(Get(orgunit, "child_orgunits", <<>>)) |-> AppendPath(org, c, depth + 1)]

\* The result of _append_path given the results for the child orgunits
PathOf(orgunit, below) ==
    IF FirstError([i \in DOMAIN Get(orgunit, "child_orgunits", <<>>) |->
                        below[orgunit.child_orgunits[i]]]) # "none"
    THEN Failed(FirstError([i \in DOMAIN Get(orgunit, "child_orgunits", <<>>) |->
                                below[orgunit.child_orgunits[i]]]))
    ELSE Returned(PathNode(orgunit, below))

\* Organization._append_path: [value, err], the value being the dict
\* built in root.  A path longer than the number of orgunits passes an
\* orgunit twice and never ends: RecursionError.
AppendPath(org, orgunit_name, depth) ==
    IF depth > Cardinality(DOMAIN org.orgunits) THEN Failed("RecursionError")
    ELSE IF orgunit_name \notin DOMAIN org.orgunits THEN Failed("KeyError")
    ELSE PathOf(org.orgunits[orgunit_name],
                PathsBelow(org, org.orgunits[orgunit_name], depth))

\* A hierarchy that starts a path at every orgunit.
EveryOrgunit(org) == Ordered(DOMAIN org.orgunits, OrgunitOrder)

\* Organization._orgunits_to_hierarchy, its top_level_orgunits, of a model
\* whose parent_references are generated
TopLevelOf(org) ==
    SelectSeq(Keys(org, "orgunits", OrgunitOrder),
              LAMBDA o : org.orgunits[o].parent_references = <<>>)

\* Organization._orgunits_to_hierarchy of a model whose parent_references
\* are generated: [value, err], the value being the hierarchy
HierarchyFrom(org, top_level_orgunits) ==
    IF FirstError([i \in DOMAIN top_level_orgunits |->
                        AppendPath(org, top_level_orgunits[i], 1)]) # "none"
    THEN Failed(FirstError([i \in DOMAIN top_level_orgunits |->
                                AppendPath(org, top_level_orgunits[i], 1)]))
    ELSE Returned([k \in {"ROOT_ACCOUNT"} |->
                    [orgunits |-> [o \in Range(top_level_orgunits) |->
                                        AppendPath(org, o, 1).value]]])

\* Organization._orgunits_to_hierarchy
OrgunitsToHierarchy(org) ==
    IF Subscripted(org.orgunits) # "none" THEN Failed(Subscripted(org.orgunits))
    ELSE HierarchyFrom(GenerateOrgunitParentReferences(org),
                       TopLevelOf(GenerateOrgunitParentReferences(org)))

\* Organization._find_orphaned_accounts: [value, err]
FindOrphanedAccounts(org) ==
    IF Subscripted(org.accounts) # "none" THEN Failed(Subscripted(org.accounts))
    ELSE IF \E a \in DOMAIN org.accounts : "parent_references" \notin DOMAIN org.accounts[a]
    THEN Failed("KeyError")
    ELSE Returned(SelectSeq(Keys(org, "accounts", AccountOrder), LAMBDA a :
                    /\ Len(org.accounts[a].parent_references) = 0
                    /\ ~(Get(org.accounts[a], "account_id", NoId) = org.root_account_id)))

\* A hierarchy that holds the key ORPHANED_ACCOUNTS whatever was found.
WithOrphanedAccountsAlways(orgunit_hierarchy, orphaned_accounts) ==
    IF orgunit_hierarchy.err # "none" THEN orgunit_hierarchy
    ELSE IF orphaned_accounts.err # "none" THEN orphaned_accounts
    ELSE [value |-> [k \in DOMAIN orgunit_hierarchy.value \cup {"ORPHANED_ACCOUNTS"} |->
                        IF k = "ORPHANED_ACCOUNTS" THEN orphaned_accounts.value
                        ELSE orgunit_hierarchy.value[k]],
          err |-> "none"]

\* Organization.get_orgunit_hierarchy given what its two calls returned
WithOrphanedAccounts(orgunit_hierarchy, orphaned_accounts) ==
    IF orgunit_hierarchy.err # "none" THEN orgunit_hierarchy
    ELSE IF orphaned_accounts.err # "none" THEN orphaned_accounts
    ELSE IF orphaned_accounts.value # <<>>
    THEN Returned(Put(orgunit_hierarchy.value, "ORPHANED_ACCOUNTS", orphaned_accounts.value))
    ELSE orgunit_hierarchy

\* Organization.get_orgunit_hierarchy: [value, err]
GetOrgunitHierarchy(org) ==
    WithOrphanedAccounts(OrgunitsToHierarchy(org), FindOrphanedAccounts(org))

----------------------------------------------------------------------------
(* DefaultConfigLoader.dump_organization_to_config.                        *)

ConfigVersion == "2018-05-04"

\* `if mapped_attribute` of _render_from_map: None, an empty list and an
\* empty dict are not rendered
Rendered(attribute_name, mapped_attribute) ==
    CASE attribute_name \in {"groups", "policies", "accounts"} -> mapped_attribute # <<>>
      [] attribute_name = "account_id" -> mapped_attribute # NoId
      [] attribute_name = "document" -> mapped_attribute # EmptyDict
      [] OTHER -> mapped_attribute # "None"

\* The name under which the configuration holds the attribute
ConfigName(attribute_name) ==
    IF attribute_name = "account_id" THEN "accountid" ELSE attribute_name

\* DefaultConfigLoader._render_from_map: [value, err]; getattr of a dict
\* is an AttributeError
RenderFromMap(source, attribute_names) ==
    IF ~IsObject(source) THEN Failed("AttributeError")
    ELSE Returned([c \in {ConfigName(a) : a \in {b \in attribute_names :
                                            Rendered(b, source[b])}} |->
                    source[CHOOSE a \in attribute_names : ConfigName(a) = c]])

\* The list a _render_* method builds from the entities of a dict
RenderEach(entities, keys, attribute_names) ==
    IF FirstError([i \in DOMAIN keys |->
                        RenderFromMap(entities[keys[i]], attribute_names)]) # "none"
    THEN Failed(FirstError([i \in DOMAIN keys |->
                                RenderFromMap(entities[keys[i]], attribute_names)]))
    ELSE Returned([i \in DOMAIN keys |->
                        RenderFromMap(entities[keys[i]], attribute_names).value])

RECURSIVE RenderOrgunit(_, _, _)

\* The rendered child orgunits of _render_orgunit, in the order of
\* root['orgunits']
RenderChildren(orgunits, children, root) ==
    [i \in DOMAIN children |-> RenderOrgunit(orgunits, children[i], root.orgunits[children[i]])]

\* DefaultConfigLoader._render_orgunit: [value, err]
RenderOrgunit(orgunits, orgunit_name, root) ==
    IF RenderFromMap(orgunits[orgunit_name], {"name", "policies", "accounts"}).err # "none"
    THEN RenderFromMap(orgunits[orgunit_name], {"name", "policies", "accounts"})
    ELSE IF "orgunits" \notin DOMAIN root
    THEN RenderFromMap(orgunits[orgunit_name], {"name", "policies", "accounts"})
    ELSE IF FirstError(RenderChildren(orgunits,
                Deduped(orgunits[orgunit_name].child_orgunits), root)) # "none"
    THEN Failed(FirstError(RenderChildren(orgunits,
                Deduped(orgunits[orgunit_name].child_orgunits), root)))
    ELSE Returned(Put(RenderFromMap(orgunits[orgunit_name],
                                    {"name", "policies", "accounts"}).value,
                      "orgunits",
                      [i \in DOMAIN Deduped(orgunits[orgunit_name].child_orgunits) |->
                        RenderChildren(orgunits,
                            Deduped(orgunits[orgunit_name].child_orgunits), root)[i].value]))

\* DefaultConfigLoader._render_orgunits given what get_orgunit_hierarchy
\* returned: [value, err]
RenderOrgunits(org, orgunit_hierarchy) ==
    IF orgunit_hierarchy.err # "none" THEN orgunit_hierarchy
    ELSE IF FirstError([i \in DOMAIN TopLevelOf(org) |->
                RenderOrgunit(org.orgunits, TopLevelOf(org)[i],
                    orgunit_hierarchy.value.ROOT_ACCOUNT.orgunits[TopLevelOf(org)[i]])]) # "none"
    THEN Failed(FirstError([i \in DOMAIN TopLevelOf(org) |->
                RenderOrgunit(org.orgunits, TopLevelOf(org)[i],
                    orgunit_hierarchy.value.ROOT_ACCOUNT.orgunits[TopLevelOf(org)[i]])]))
    ELSE Returned([i \in DOMAIN TopLevelOf(org) |->
                RenderOrgunit(org.orgunits, TopLevelOf(org)[i],
                    orgunit_hierarchy.value.ROOT_ACCOUNT.orgunits[TopLevelOf(org)[i]]).value])

\* What a part of the configuration is when the model has nothing to
\* render for it: the key is left out
NotRendered == [value |-> EmptyDict, err |-> "none", left_out |-> TRUE]

\* The config of dump_organization_to_config given what the _render_*
\* methods returned: the first exception, or the config with a key for
\* each part that was rendered
ConfigOf(org, provisioner, accounts, policies, orgunits) ==
    IF provisioner.err # "none" THEN Failed(provisioner.err)
    ELSE IF accounts.err # "none" THEN Failed(accounts.err)
    ELSE IF policies.err # "none" THEN Failed(policies.err)
    ELSE IF orgunits.err # "none" THEN Failed(orgunits.err)
    ELSE Returned(
        [k \in {"root", "featureset", "version"}
               \cup {c \in {"provisioner"} : "left_out" \notin DOMAIN provisioner}
               \cup {c \in {"accounts"} : "left_out" \notin DOMAIN accounts}
               \cup {c \in {"policies"} : "left_out" \notin DOMAIN policies}
               \cup {c \in {"orgunits"} : "left_out" \notin DOMAIN orgunits} |->
            CASE k = "root" -> org.root_account_id
              [] k = "featureset" -> org.featureset
              [] k = "version" -> ConfigVersion
              [] k = "provisioner" -> provisioner.value
              [] k = "accounts" -> accounts.value
              [] k = "policies" -> policies.value
              [] k = "orgunits" -> orgunits.value])

\* dump_organization_to_config after raise_if_invalid, on the model as
\* validate left it
RenderOrganization(org) ==
    ConfigOf(org,
        IF "provisioner" \in DOMAIN org
        THEN RenderFromMap(org.provisioner, {"role", "type"}) ELSE NotRendered,
        IF org.accounts # EmptyDict
        THEN RenderEach(org.accounts, Keys(org, "accounts", AccountOrder),
                        {"name", "owner", "groups", "account_id"})
        ELSE NotRendered,
        IF org.policies # EmptyDict
        THEN RenderEach(org.policies, Keys(org, "policies", PolicyOrder),
                        {"name", "description", "document"})
        ELSE NotRendered,
        IF org.orgunits # EmptyDict
        THEN RenderOrgunits(org, GetOrgunitHierarchy(org))
        ELSE NotRendered)

\* A dump that renders the model whatever validate found.
DumpedUnchecked(validated) ==
    IF validated.err # "none" THEN Failed(validated.err)
    ELSE RenderOrganization(validated.value.org)

\* DefaultConfigLoader.dump_organization_to_config given what validate
\* returned: [value, err]
Dumped(validated) ==
    IF validated.err # "none" THEN Failed(validated.err)
    ELSE IF validated.value.problems # EmptyDict
    THEN Failed("InvalidOrganizationException")
    ELSE RenderOrganization(validated.value.org)

\* DefaultConfigLoader.dump_organization_to_config: [value, err]
DumpOrganizationToConfig(org) == Dumped(ValidateModel(org))

----------------------------------------------------------------------------
(* The configuration documents and the models the loader, validate,        *)
(* get_orgunit_hierarchy and the dump are run on.                          *)

\* The root of a document: the id as a string, the id as a number
DocumentRoots == {RootAccountId, <<"int", 1>>}

DocumentProvisioners ==
    {[role |-> "admin"], [role |-> "admin", type |-> "cfn-stack-set"]}

\* An account of a document
DocumentAccount(name) == [name |-> name, owner |-> name]

DocumentAccounts ==
    {<<>>,
     <<Put(DocumentAccount("master"), "accountid", RootAccountId)>>,
     <<DocumentAccount("master"), DocumentAccount("acct_a")>>,
     <<DocumentAccount("acct_a"), DocumentAccount("master")>>,
     <<DocumentAccount("acct_a"), DocumentAccount("acct_a")>>,
     <<[name |-> "acct_a"]>>,
     <<Put(DocumentAccount("acct_a"), "groups", <<"admins">>)>>,
     <<Put(DocumentAccount("acct_a"), "groups", <<>>)>>}

DocumentPolicies ==
    {<<[name |-> "pol_a", description |-> "scp", document |-> [content |-> "v1"]]>>,
     <<[name |-> "pol_a", document |-> [content |-> "v1"]]>>,
     <<[name |-> "pol_a", description |-> "scp",
        document |-> [content |-> "v1", location |-> "pol_a.json"]]>>}

DocumentOrgunits ==
    {<<>>,
     <<[name |-> "ou_a"]>>,
     <<[name |-> "ou_a", accounts |-> <<"acct_a">>,
        orgunits |-> <<[name |-> "ou_b"], [name |-> "ou_c"]>>]>>,
     <<[name |-> "ou_a", orgunits |-> <<[name |-> "ou_b", orgunits |-> <<[name |-> "ou_c"]>>]>>],
       [name |-> "ou_a"]>>,
     <<[accounts |-> <<"acct_a">>]>>}

\* The documents docs, each with and without the key set to one of values
Extended(docs, key, values) ==
    docs \cup {Put(d, key, v) : d \in docs, v \in values}

Documents ==
    Extended(Extended(Extended(Extended(Extended(Extended(Extended({EmptyDict},
        "root", DocumentRoots),
        "featureset", FeatureSets),
        "version", {ConfigVersion}),
        "provisioner", DocumentProvisioners),
        "accounts", DocumentAccounts),
        "policies", DocumentPolicies),
        "orgunits", DocumentOrgunits)

\* The models built as dicts, as the callers of the Organization class
\* build them
Models == {run[1] : run \in UncheckedCases \cup TangledCases}

----------------------------------------------------------------------------
(* The loader, validate, get_orgunit_hierarchy and the dump, each called   *)
(* once: a document is loaded, and a model is validated, dumped or asked   *)
(* for its hierarchy.                                                      *)

CodecInit ==
    /\ \/ config \in Documents /\ declared = None /\ pc = "load_config"
       \/ config = None /\ declared \in Models /\ pc = "model"
    /\ prov = NoProvider
    /\ aws_model = None
    /\ updated_model = None
    /\ actions = EmptyDict
    /\ kinds = <<>>
    /\ problems = NoProblems
    /\ changes = EmptyDict
    /\ calls = <<>>
    /\ error = "none"
    /\ faults = 0
    /\ creation_statuses = EmptyDict
    /\ waiting_accounts = <<>>
    /\ polls = 0
    /\ cancelled = FALSE
    /\ dumped = None
    /\ hierarchy = None
    /\ arguments = None

\* What the calls of the codec leave alone
Untouched ==
    UNCHANGED <<prov, aws_model, updated_model, actions, kinds, changes, calls,
                faults, creation_statuses, waiting_accounts, polls, cancelled, config,
                arguments>>

\* loaders.config.load_organization_from_config(config)
LoadFromConfig ==
    /\ pc = "load_config"
    /\ declared' = LoadOrganizationFromConfig(config).value
    /\ error' = LoadOrganizationFromConfig(config).err
    /\ pc' = IF LoadOrganizationFromConfig(config).err = "none" THEN "model" ELSE "error"
    /\ UNCHANGED <<problems, dumped, hierarchy>>
    /\ Untouched

\* The model and the problems after a call of validate that returned
\* `validated`
ValidateReturned(validated) ==
    IF validated.err # "none" THEN UNCHANGED <<declared, problems>>
    ELSE /\ declared' = validated.value.org
         /\ problems' = [NoProblems EXCEPT !.raised = validated.value.problems]

\* org_model.validate()
ValidateCalled ==
    /\ pc = "model"
    /\ ValidateReturned(ValidateModel(declared))
    /\ error' = ValidateModel(declared).err
    /\ pc' = IF ValidateModel(declared).err = "none" THEN "validated" ELSE "error"
    /\ UNCHANGED <<dumped, hierarchy>>
    /\ Untouched

\* org_model.get_orgunit_hierarchy()
HierarchyCalled ==
    /\ pc \in {"model", "validated"}
    /\ hierarchy' = GetOrgunitHierarchy(declared)
    /\ declared' = IF Subscripted(declared.orgunits) # "none" THEN declared
                   ELSE GenerateOrgunitParentReferences(declared)
    /\ pc' = "hierarchy"
    /\ UNCHANGED <<problems, error, dumped>>
    /\ Untouched

\* loaders.config.dump_organization_to_config(org_model)
DumpToConfig ==
    /\ pc \in {"model", "validated"}
    /\ dumped' = DumpOrganizationToConfig(declared)
    /\ ValidateReturned(ValidateModel(declared))
    /\ pc' = "dumped"
    /\ UNCHANGED <<error, hierarchy>>
    /\ Untouched

Codec ==
    \/ LoadFromConfig
    \/ ValidateCalled
    \/ HierarchyCalled
    \/ DumpToConfig

CodecSpec == CodecInit /\ [][Codec]_vars

----------------------------------------------------------------------------
(* Organization.load, called once on a new model.                          *)

\* The states of AWS a model is loaded from: no organization, an
\* organization, an organization whose master is another account than the
\* root account of the model, and an organization AWS does not let the
\* caller describe.
LoadedFrom ==
    LET existing == {run[2] : run \in {r \in Runs \cup PolicyCases : r[2].exists}}
    IN  {NoProvider} \cup existing
        \cup {[p EXCEPT !.master = AccountId("acct_a")] : p \in existing}
        \cup {Put(p, "describe_error", e) :
                p \in existing, e \in {"AccessDeniedException", "TooManyRequestsException"}}

LoadInit ==
    /\ \E source \in {"aws", "config", "None"} : declared = NewOrganization(source)
    /\ prov \in LoadedFrom
    /\ pc = "load"
    /\ aws_model = None
    /\ updated_model = None
    /\ actions = EmptyDict
    /\ kinds = <<>>
    /\ problems = NoProblems
    /\ changes = EmptyDict
    /\ calls = <<>>
    /\ error = "none"
    /\ faults = 0
    /\ creation_statuses = EmptyDict
    /\ waiting_accounts = <<>>
    /\ polls = 0
    /\ cancelled = FALSE
    /\ config = None
    /\ dumped = None
    /\ hierarchy = None
    /\ arguments = None

\* Organization.load
LoadCalled ==
    /\ pc = "load"
    /\ declared' = Load(declared, prov).org
    /\ error' = Load(declared, prov).err
    /\ calls' = LoadCalls(declared, prov)
    /\ pc' = IF Load(declared, prov).err = "none" THEN "loaded" ELSE "error"
    /\ UNCHANGED <<prov, aws_model, updated_model, actions, kinds, problems, changes,
                   faults, creation_statuses, waiting_accounts, polls, cancelled,
                   config, dumped, hierarchy, arguments>>

LoadSpec == LoadInit /\ [][LoadCalled]_vars

----------------------------------------------------------------------------
(* OrganizationService.update_entity_policy_attachments and                *)
(* update_orgunit_policies, called once as converge calls them: on a model *)
(* whose updated_model was loaded from AWS.                                *)

\* The policies AWS may have attached to its root and orgunits
Attachable(p) ==
    {p.policies[n].id : n \in DOMAIN p.policies}
        \X ({RootParentId} \cup {p.ous[k].id : k \in DOMAIN p.ous})

\* The states of AWS the service is called on
ServedFrom ==
    UNION {{[run[2] EXCEPT !.attachments = attached] :
                attached \in SUBSET Attachable(run[2])} :
            run \in {r \in PolicyCases : r[2].exists /\ r[2].featureset = "ALL"}}

\* The configured models it is called for
ServedModels == {run[1] : run \in {r \in PolicyCases : r[1].featureset = "ALL"}}

\* The lists of policies of model org, none of them twice
PolicyLists(org) ==
    {<<>>} \cup {<<n>> : n \in DOMAIN org.policies}
    \cup {pair \in (DOMAIN org.policies) \X (DOMAIN org.policies) : pair[1] # pair[2]}

\* The targets model org has, the root and its orgunits, each with the
\* policies the model has for it
PolicyTargets(org) ==
    {[target_id |-> org.root_parent_id, old_policies |-> org.root_policies]}
    \cup {[target_id |-> org.orgunits[o].id,
           old_policies |-> Get(org.orgunits[o], "policies", <<>>)] :
            o \in DOMAIN org.orgunits}

\* The calls converge makes: update_entity_policy_attachments with the
\* policies the updated model has for the target as old_policies, and
\* update_orgunit_policies for an orgunit of both models
ServiceCalls(org, upd) ==
    {[call |-> "update_entity_policy_attachments", target_id |-> target.target_id,
      old_policies |-> target.old_policies, new_policies |-> new_policies] :
        target \in PolicyTargets(upd), new_policies \in PolicyLists(upd)}
    \cup {[call |-> "update_orgunit_policies", orgunit_name |-> o] :
            o \in DOMAIN org.orgunits \cap DOMAIN upd.orgunits}

ServiceInit ==
    /\ declared \in ServedModels
    /\ prov \in ServedFrom
    /\ aws_model = Load(NewOrganization("aws"), prov).org
    /\ updated_model = aws_model
    /\ arguments \in ServiceCalls(declared, updated_model)
    /\ pc = "service"
    /\ actions = EmptyDict
    /\ kinds = <<>>
    /\ problems = NoProblems
    /\ changes = EmptyDict
    /\ calls = <<>>
    /\ error = "none"
    /\ faults = 0
    /\ creation_statuses = EmptyDict
    /\ waiting_accounts = <<>>
    /\ polls = 0
    /\ cancelled = FALSE
    /\ config = None
    /\ dumped = None
    /\ hierarchy = None

\* The state after the call left the world w.
Served(w) ==
    /\ prov' = w.prov
    /\ calls' = w.calls
    /\ error' = w.err
    /\ faults' = Cardinality({i \in w.fail : i <= w.n})
    /\ pc' = IF w.err = "none" THEN "served" ELSE "error"
    /\ UNCHANGED <<declared, aws_model, updated_model, actions, kinds, problems, changes,
                   creation_statuses, waiting_accounts, polls, cancelled, config, dumped,
                   hierarchy, arguments>>

\* AWS answers every call, or refuses the first or the second.
Refusals == {{}, {1}, {2}}

\* org_service.update_entity_policy_attachments(org_model, target_id,
\* old_policies, new_policies)
UpdateEntityPolicyAttachmentsCalled ==
    /\ pc = "service"
    /\ arguments.call = "update_entity_policy_attachments"
    /\ \E fail \in Refusals :
            Served(UpdateEntityPolicyAttachments(
                        World(prov, updated_model, changes, calls, fail), "service",
                        arguments.target_id, arguments.old_policies,
                        arguments.new_policies))

\* org_service.update_orgunit_policies(organization, orgunit_name)
UpdateOrgunitPoliciesCalled ==
    /\ pc = "service"
    /\ arguments.call = "update_orgunit_policies"
    /\ \E fail \in Refusals :
            Served(UpdateOrgunitPolicies(
                        World(prov, updated_model, changes, calls, fail), declared,
                        "service", arguments.orgunit_name))

Service ==
    \/ UpdateEntityPolicyAttachmentsCalled
    \/ UpdateOrgunitPoliciesCalled

ServiceSpec == ServiceInit /\ [][Service]_vars

----------------------------------------------------------------------------
(* Properties of the run.                                                  *)

\* converge returned its report without raising.
Converged == pc = "done" /\ error = "none"

\* The plan of a dry run on AWS as it is now.
PlanNow == DryRunOf(declared, prov).actions

\* C1: after converge completes without error (AWS having answered every
\* call as documented), a dry run on the reloaded organization plans no
\* action: no account, policy, orgunit or association action remains.
C1_DifferIdempotentAfterConverge ==
    (Converged /\ faults = 0) => PlanNow = EmptyDict

\* The order in which the phases of converge are specified to run.
PhaseRank(phase) ==
    CASE phase = "create_organization" -> 1
      [] phase = "upsert_policies" -> 2
      [] phase = "upsert_root_policy_targets" -> 3
      [] phase = "upsert_accounts" -> 4
      [] phase = "upsert_orgunits" -> 5
      [] phase = "update_account_associations" -> 6
      [] phase = "delete_orgunits" -> 7
      [] phase = "delete_policies" -> 8

\* C2: the phases of converge run in one strict total order (create
\* organization, upsert policies, root policy attachments, create accounts,
\* upsert orgunits, move accounts, delete orgunits, delete policies): no
\* call of a later phase is issued before a call of an earlier phase, the
\* policy upserts only create or update, and policies are deleted only in
\* the last phase.
C2_PhasesInStrictOrder ==
    /\ \A i, j \in DOMAIN calls :
            i < j => PhaseRank(calls[i].phase) <= PhaseRank(calls[j].phase)
    /\ \A i \in DOMAIN calls :
            /\ calls[i].phase = "upsert_policies"
                    => calls[i].op \in {"create_policy", "update_policy"}
            /\ calls[i].op = "delete_policy" => calls[i].phase = "delete_policies"

\* A converge that returned after calls of three phases, the two deleting
\* phases among them.
C2_Witness ==
    /\ Converged
    /\ \E i, j, k \in DOMAIN calls :
            /\ calls[i].phase = "upsert_root_policy_targets"
            /\ calls[j].phase = "delete_orgunits"
            /\ calls[k].phase = "delete_policies"

\* C3: when converge issues delete_policy for a policy, the policy is
\* attached to no target at AWS (not the root, no orgunit, no account).
C3_PolicyDetachedWhenDeleted ==
    \A i \in DOMAIN calls :
        calls[i].op = "delete_policy" => ~calls[i].seen.in_use

\* C4: when converge issues delete_organizational_unit for an orgunit, in
\* the delete phase or in the rebuild, the orgunit has no child orgunit and
\* no child account at AWS.
C4_OrgunitEmptyWhenDeleted ==
    \A i \in DOMAIN calls :
        calls[i].op = "delete_organizational_unit" => ~calls[i].seen.not_empty

DeleteOrgunitFailed(call) ==
    /\ call.op = "delete_organizational_unit"
    /\ call.code \notin {"ok", "OrganizationalUnitNotFoundException"}

\* C6: a delete_organizational_unit that fails because the orgunit is not
\* found is absorbed, and one that fails otherwise (orgunit not empty,
\* access denied) is surfaced: converge ends with that error.
C6_OnlyNotFoundAbsorbed ==
    \A i \in DOMAIN calls :
        DeleteOrgunitFailed(calls[i]) => pc = "error" /\ error = calls[i].code

\* A call that failed and whose failure is not an 'already absent' answer.
CallFailed(call) ==
    /\ call.code # "ok"
    /\ ~(call.op = "delete_organizational_unit"
         /\ call.code = "OrganizationalUnitNotFoundException")

\* C7: a call of converge that fails, but for an absorbed 'already absent'
\* answer, is the last mutating call converge issues, and converge ends
\* with its error.
C7_FailureEndsConverge ==
    \A i \in DOMAIN calls :
        CallFailed(calls[i])
            => i = Len(calls) /\ pc = "error" /\ error = calls[i].code

\* C8: the change reported for an account submitted to create_accounts
\* follows its final creation state: SUCCEEDED gives 'created', FAILED
\* gives 'failed' with the FailureReason as 'reason', any other state
\* gives 'unknown'.
C8_AccountChangeFollowsState ==
    "accounts" \in DOMAIN changes =>
        \A a \in DOMAIN creation_statuses :
            /\ creation_statuses[a].State = "SUCCEEDED"
                    => changes.accounts[a].change = "created"
            /\ creation_statuses[a].State = "FAILED"
                    => /\ changes.accounts[a].change = "failed"
                       /\ "reason" \in DOMAIN changes.accounts[a]
                       /\ changes.accounts[a].reason
                                = creation_statuses[a].FailureReason
            /\ creation_statuses[a].State \notin {"SUCCEEDED", "FAILED"}
                    => changes.accounts[a].change = "unknown"

C10_PlanForNewOrganization ==
    (pc = "create_organization" /\ ~aws_model.exists) =>
        actions = [organizations |-> [organization |-> [action |-> "create"]]]

\* The plan for no organization, of a model with orgunits and accounts.
C10_Witness ==
    /\ pc = "create_organization"
    /\ ~aws_model.exists
    /\ DOMAIN declared.orgunits = {"ou_a", "ou_b"}
    /\ "acct_a" \in DOMAIN declared.accounts

----------------------------------------------------------------------------
(* The plan of the differ.                                                 *)

\* dry_run returned a report of a comparison against an organization that
\* exists.
ComparedExisting == pc = "create_organization" /\ aws_model.exists

\* The action planned for entity `name` under `kind`, "none" when there is
\* none.
PlannedAction(kind, name) ==
    IF kind \in DOMAIN actions /\ name \in DOMAIN actions[kind]
    THEN actions[kind][name].action ELSE "none"

\* The policies of an entity, as a set: none when it lists none.
PoliciesOf(entity) == Range(Get(entity, "policies", <<>>))

\* The comparable attributes {name, policies} of two entities differ.
NameOrPoliciesDiffer(configured, existing) ==
    configured.name # existing.name \/ PoliciesOf(configured) # PoliciesOf(existing)

\* C11: for every declared account the plan holds under 'accounts': create
\* when the account is absent from the actual model and declares no account
\* id, invite when it is absent and declares one, update when it is present
\* and its name or its policies differ, and no action when it is present
\* with the same name and policies.
C11_AccountActions ==
    ComparedExisting =>
        \A a \in DOMAIN declared.accounts :
            PlannedAction("accounts", a) =
                IF a \notin DOMAIN aws_model.accounts
                THEN (IF "account_id" \in DOMAIN declared.accounts[a]
                      THEN "invite" ELSE "create")
                ELSE IF NameOrPoliciesDiffer(declared.accounts[a], aws_model.accounts[a])
                THEN "update" ELSE "none"

\* A policy that either model flags as managed by AWS.
AwsManaged(name) ==
    \/ name \in DOMAIN declared.policies
        /\ Get(declared.policies[name], "aws_managed", FALSE)
    \/ name \in DOMAIN aws_model.policies
        /\ Get(aws_model.policies[name], "aws_managed", FALSE)

\* The comparable attributes {name, description, document} of two policies
\* differ.
PolicyDiffers(configured, existing) ==
    \/ configured.name # existing.name
    \/ configured.description # existing.description
    \/ configured.document # existing.document

\* C12: the plan holds no create, update or delete for a policy that the
\* declared or the actual model flags as managed by AWS; for every other
\* policy it holds create when only declared, delete when only actual, and
\* update exactly when name, description or document differ.
C12_PolicyActions ==
    ComparedExisting =>
        \A n \in DOMAIN declared.policies \cup DOMAIN aws_model.policies :
            PlannedAction("policies", n) =
                IF AwsManaged(n) THEN "none"
                ELSE IF n \notin DOMAIN aws_model.policies THEN "create"
                ELSE IF n \notin DOMAIN declared.policies THEN "delete"
                ELSE IF PolicyDiffers(declared.policies[n], aws_model.policies[n])
                THEN "update" ELSE "none"

\* C13: the plan holds under 'orgunits': create for every orgunit only in
\* the declared model, delete for every orgunit only in the actual model,
\* update for every orgunit in both whose name or policies differ, and no
\* action for an orgunit in both with the same name and policies.
C13_OrgunitActions ==
    ComparedExisting =>
        \A o \in DOMAIN declared.orgunits \cup DOMAIN aws_model.orgunits :
            PlannedAction("orgunits", o) =
                IF o \notin DOMAIN aws_model.orgunits THEN "create"
                ELSE IF o \notin DOMAIN declared.orgunits THEN "delete"
                ELSE IF NameOrPoliciesDiffer(declared.orgunits[o], aws_model.orgunits[o])
                THEN "update" ELSE "none"

\* The orgunit that lists the account in its accounts, "root" when none
\* does; "absent" for an account the model does not have.
ParentOfAccount(org, a) ==
    IF a \notin DOMAIN org.accounts THEN "absent"
    ELSE IF \E o \in DOMAIN org.orgunits :
                Contains(Get(org.orgunits[o], "accounts", <<>>), a)
    THEN CHOOSE o \in DOMAIN org.orgunits :
                Contains(Get(org.orgunits[o], "accounts", <<>>), a)
    ELSE "root"

\* The orgunit that lists the orgunit in its child_orgunits, "root" when
\* none does; "absent" for an orgunit the model does not have.
ParentOfOrgunit(org, u) ==
    IF u \notin DOMAIN org.orgunits THEN "absent"
    ELSE IF \E o \in DOMAIN org.orgunits : Contains(org.orgunits[o].child_orgunits, u)
    THEN CHOOSE o \in DOMAIN org.orgunits : Contains(org.orgunits[o].child_orgunits, u)
    ELSE "root"

NoAssociation == [action |-> "none", parent |-> "none"]

\* The association planned for entity `name` under `kind`.
PlannedParent(kind, name) ==
    IF kind \in DOMAIN actions /\ name \in DOMAIN actions[kind]
    THEN actions[kind][name] ELSE NoAssociation

Associate(parent) == [action |-> "associate", parent |-> parent]

\* C14: the plan holds an account_associations entry for a declared account
\* other than the root account exactly when its declared parent is not its
\* actual parent, and an orgunit_associations entry for a declared orgunit
\* exactly when its declared parent is not its actual parent; the entry
\* associates the entity with its declared parent ('root' when it has none).
C14_AssociationsWhenParentDiffers ==
    ComparedExisting =>
        /\ \A a \in DOMAIN declared.accounts :
            Get(declared.accounts[a], "account_id", NoId) # declared.root_account_id =>
                PlannedParent("account_associations", a) =
                    IF ParentOfAccount(declared, a) # ParentOfAccount(aws_model, a)
                    THEN Associate(ParentOfAccount(declared, a)) ELSE NoAssociation
        /\ \A o \in DOMAIN declared.orgunits :
                PlannedParent("orgunit_associations", o) =
                    IF ParentOfOrgunit(declared, o) # ParentOfOrgunit(aws_model, o)
                    THEN Associate(ParentOfOrgunit(declared, o)) ELSE NoAssociation

\* acct_a is moved from ou_a to ou_b while ou_a stays under the root.
C14_Witness ==
    /\ ComparedExisting
    /\ ParentOfAccount(declared, "acct_a") = "ou_b"
    /\ ParentOfAccount(aws_model, "acct_a") = "ou_a"
    /\ ParentOfOrgunit(declared, "ou_a") = "root"
    /\ ParentOfOrgunit(aws_model, "ou_a") = "root"
    /\ PlannedParent("account_associations", "acct_a") = Associate("ou_b")
    /\ PlannedParent("orgunit_associations", "ou_a") = NoAssociation

\* An account of AWS that is not declared, is not the root account, and
\* whose orgunit in AWS is not declared either.
LosesItsOrgunit(a) ==
    /\ a \notin DOMAIN declared.accounts
    /\ aws_model.accounts[a].account_id # declared.root_account_id
    /\ ParentOfAccount(aws_model, a) # "root"
    /\ ParentOfAccount(aws_model, a) \notin DOMAIN declared.orgunits

\* The problems the report holds on account a.
ReportedOn(a) ==
    IF "accounts" \in DOMAIN problems.report /\ a \in DOMAIN problems.report.accounts
    THEN problems.report.accounts[a] ELSE <<>>

OrganizationDiffers ==
    \/ declared.featureset # aws_model.featureset
    \/ Range(declared.root_policies) # Range(aws_model.root_policies)

\* C16: when the actual organization exists, the plan holds
\* organizations.organization with the action update when the declared
\* feature set or root policies differ from the actual ones, and no
\* organizations action when both are equal.
C16_OrganizationUpdatePlanned ==
    ComparedExisting =>
        PlannedAction("organizations", "organization") =
            IF OrganizationDiffers THEN "update" ELSE "none"

\* The accounts and orgunits the plan creates or updates with policy n among
\* their declared policies, as <<kind, name>>.
ReferrersOf(n) ==
    {<<"accounts", a>> : a \in {b \in DOMAIN declared.accounts :
        /\ PlannedAction("accounts", b) \in {"create", "update"}
        /\ n \in PoliciesOf(declared.accounts[b])}}
    \cup
    {<<"orgunits", o>> : o \in {u \in DOMAIN declared.orgunits :
        /\ PlannedAction("orgunits", u) \in {"create", "update"}
        /\ n \in PoliciesOf(declared.orgunits[u])}}

\* The accounts and orgunits in the plan that have policy n in AWS.
HoldersOf(n) ==
    {<<"accounts", a>> : a \in {b \in DOMAIN aws_model.accounts :
        /\ PlannedAction("accounts", b) # "none"
        /\ n \in PoliciesOf(aws_model.accounts[b])}}
    \cup
    {<<"orgunits", o>> : o \in {u \in DOMAIN aws_model.orgunits :
        /\ PlannedAction("orgunits", u) # "none"
        /\ n \in PoliciesOf(aws_model.orgunits[u])}}

\* C17, as stated: in the ordered plan 'organizations' comes first, every
\* policy created or updated comes before every account or orgunit entry
\* whose create or update refers to it, and a policy's delete comes after
\* the last entry that refers to the policy.
C17_PoliciesBeforeReferrers ==
    pc = "create_organization" =>
        /\ Contains(kinds, "organizations") => kinds[1] = "organizations"
        /\ \A n \in DOMAIN declared.policies :
            PlannedAction("policies", n) \in {"create", "update"} =>
                \A e \in ReferrersOf(n) :
                    IndexOf(kinds, "policies") < IndexOf(kinds, e[1])
        /\ aws_model.exists =>
            \A n \in DOMAIN aws_model.policies :
                PlannedAction("policies", n) = "delete" =>
                    \A e \in HoldersOf(n) :
                        IndexOf(kinds, e[1]) < IndexOf(kinds, "policies")

\* The order in which the differ compares.
KindsOfDiffer ==
    <<"organizations", "accounts", "account_associations", "orgunits",
      "orgunit_associations", "policies">>

\* C17, amended: the kinds of the plan are in the order in which the differ
\* compares: organizations (alone, for an organization to create), else
\* accounts, account_associations, orgunits, orgunit_associations and
\* policies last.  Every policy entry, a create and an update as much as a
\* delete, comes after every account and orgunit entry.
C17_PlanKindsInDifferOrder ==
    /\ Range(kinds) = DOMAIN actions
    /\ kinds = Ordered(DOMAIN actions, KindsOfDiffer)
    /\ Contains(kinds, "organizations") => kinds[1] = "organizations"
    /\ Contains(kinds, "policies") => kinds[Len(kinds)] = "policies"

\* The plan creates pol_a and the orgunit ou_a that pol_a is to be attached
\* to: the orgunit comes first.
C17_Witness ==
    /\ ComparedExisting
    /\ PlannedAction("policies", "pol_a") = "create"
    /\ <<"orgunits", "ou_a">> \in ReferrersOf("pol_a")
    /\ kinds = <<"orgunits", "orgunit_associations", "policies">>

----------------------------------------------------------------------------
(* The problems of validate.                                               *)

\* dry_run has validated the declared model.
ValidatedDeclared == pc # "dry_run"

\* The problems validate recorded on entity `name` of `kind`.
RaisedOn(kind, name) ==
    IF kind \in DOMAIN problems.raised /\ name \in DOMAIN problems.raised[kind]
    THEN problems.raised[kind][name] ELSE <<>>

\* The orgunits that list the account in their accounts.
OrgunitsListing(a) ==
    {o \in DOMAIN declared.orgunits :
        Contains(Get(declared.orgunits[o], "accounts", <<>>), a)}

\* The account is the root account of the organization.
IsRootAccount(a) ==
    /\ "account_id" \in DOMAIN declared.accounts[a]
    /\ declared.accounts[a].account_id = declared.root_account_id

MultipleParents(a) ==
    SelectSeq(RaisedOn("accounts", a),
              LAMBDA q : q.problem = "referenced as a child of multiple orgunits")

\* C19: validate records on an account the problem 'referenced as a child
\* of multiple orgunits: <names>' exactly when two or more orgunits list the
\* account, and <names> holds each of these orgunits once, in the order in
\* which validate visits the orgunits.
C19_MultipleParents ==
    ValidatedDeclared =>
        \A a \in DOMAIN declared.accounts :
            MultipleParents(a) =
                IF Cardinality(OrgunitsListing(a)) >= 2
                THEN <<Problem("referenced as a child of multiple orgunits",
                               Ordered(OrgunitsListing(a), OrgunitOrder))>>
                ELSE <<>>

\* How many times list s holds x.
Occurrences(s, x) == Len(SelectSeq(s, LAMBDA y : y = x))

\* What orgunit o lists under `key`.
ListedBy(o, key) == Get(declared.orgunits[o], key, <<>>)

\* The problems validate must record on orgunit o for name n: one for each
\* time o lists n under `key`, when n is missing, and none when it is not.
RaisedAsListed(o, key, message, n, missing) ==
    Occurrences(RaisedOn("orgunits", o), Problem(message, <<n>>))
        = IF missing THEN Occurrences(ListedBy(o, key), n) ELSE 0

\* The entries of the lists of orgunit o that name something missing.
MissingListed(o) ==
    SelectSeq(ListedBy(o, "child_orgunits"),
              LAMBDA n : n \notin DOMAIN declared.orgunits)
    \o SelectSeq(ListedBy(o, "accounts"),
                 LAMBDA n : n \notin DOMAIN declared.accounts)
    \o SelectSeq(ListedBy(o, "policies"),
                 LAMBDA n : n \notin DOMAIN declared.policies /\ n # "FullAWSAccess")

\* C20: validate records on an orgunit one problem for each listed child
\* orgunit that is not a known orgunit, one for each listed account that is
\* not a known account, and one for each listed policy that is neither a
\* known policy nor the AWS-managed FullAWSAccess; a reference to a known
\* entity or to FullAWSAccess gives no problem, and the orgunit has no other
\* problem.
C20_OrgunitProblems ==
    ValidatedDeclared =>
        \A o \in DOMAIN declared.orgunits :
            /\ \A n \in Range(ListedBy(o, "child_orgunits")) :
                    RaisedAsListed(o, "child_orgunits", "references missing child orgunit",
                                   n, n \notin DOMAIN declared.orgunits)
            /\ \A n \in Range(ListedBy(o, "accounts")) :
                    RaisedAsListed(o, "accounts", "references missing account",
                                   n, n \notin DOMAIN declared.accounts)
            /\ \A n \in Range(ListedBy(o, "policies")) :
                    RaisedAsListed(o, "policies", "references missing policy", n,
                                   n \notin DOMAIN declared.policies /\ n # "FullAWSAccess")
            /\ Len(RaisedOn("orgunits", o)) = Len(MissingListed(o))

\* An orgunit that lists a known and an unknown child orgunit, an unknown
\* account and FullAWSAccess has the two problems of its unknown entries.
C20_Witness ==
    /\ ValidatedDeclared
    /\ "ou_a" \in DOMAIN declared.orgunits
    /\ "ou_b" \in DOMAIN declared.orgunits
    /\ ListedBy("ou_a", "child_orgunits") = <<"ou_b", "ou_c">>
    /\ ListedBy("ou_a", "accounts") = <<"ghost">>
    /\ ListedBy("ou_a", "policies") = <<"FullAWSAccess">>
    /\ RaisedOn("orgunits", "ou_a")
        = <<Problem("references missing child orgunit", <<"ou_c">>),
            Problem("references missing account", <<"ghost">>)>>

\* validate has run on the configured model and returned no problem.
ValidatedWithoutProblems ==
    ValidatedDeclared /\ error # "InvalidOrganizationException"

\* C21: whenever validate returns an empty problem map, every orgunit has
\* at most one parent reference: a model in which two orgunits list the
\* same child orgunit is reported as invalid.
C21_OneParentWhenValid ==
    ValidatedWithoutProblems =>
        \A o \in DOMAIN declared.orgunits :
            Len(declared.orgunits[o].parent_references) <= 1

\* The orgunits that o lists as children and the model holds.
ChildrenOf(o) ==
    Range(Get(declared.orgunits[o], "child_orgunits", <<>>)) \cap DOMAIN declared.orgunits

\* The orgunits at the end of a path of k child edges from one of S.
RECURSIVE DescendantsAt(_, _)
DescendantsAt(S, k) ==
    IF k = 0 THEN S ELSE DescendantsAt(UNION {ChildrenOf(o) : o \in S}, k - 1)

\* The orgunit is on a cycle of the parent-of relation.
OnCycle(o) ==
    \E k \in 1..Cardinality(DOMAIN declared.orgunits) : o \in DescendantsAt({o}, k)

\* C22: validating a model whose orgunit parent-of relation has a cycle,
\* an orgunit that lists itself in particular, ends in
\* OrgunitHierarchyCycleException; such a model is never reported valid.
C22_CycleRaises ==
    (ValidatedDeclared /\ \E o \in DOMAIN declared.orgunits : OnCycle(o))
        => error = "OrgunitHierarchyCycleException"

----------------------------------------------------------------------------
(* The loader and the dump.                                                *)

\* The dump has run; problems.raised holds what its validate returned.
DumpReturned == pc = "dumped"

DumpsLoaded ==
    /\ pc = "validated" /\ config # None /\ problems.raised = EmptyDict
    /\ pc' = "dumped"

\* Dump(Load(document))
RoundTrip(document) ==
    DumpOrganizationToConfig(LoadOrganizationFromConfig(document).value)

\* C24: for every configuration document whose loaded model validates with
\* no problem, the dump of the loaded model is equal to the document, and
\* so dumping, loading and dumping again gives the first dump.
C24_DumpOfLoadIsDocument ==
    [][DumpsLoaded =>
        /\ dumped' = Returned(config)
        /\ RoundTrip(dumped'.value) = dumped']_vars


\* The orgunits of a document at every depth, each as [name, nested]: the
\* names of the orgunits nested directly under it.
RECURSIVE Nested(_)
Nested(orgunits_config) ==
    IF orgunits_config = <<>> THEN <<>>
    ELSE <<[name |-> Head(orgunits_config).name,
            nested |-> {Get(Head(orgunits_config), "orgunits", <<>>)[i].name :
                            i \in DOMAIN Get(Head(orgunits_config), "orgunits", <<>>)}]>>
         \o Nested(Get(Head(orgunits_config), "orgunits", <<>>))
         \o Nested(Tail(orgunits_config))

\* The loader has run on a document with orgunits and did not reject the
\* document for a parameter it lacks or for a name it gives twice.
LoadedNested ==
    /\ pc \in {"model", "error"} /\ config # None
    /\ "orgunits" \in DOMAIN config /\ config.orgunits # <<>>
    /\ error \notin {"KeyError", "MissingRequiredParameterException",
                     "MultipleParametersSpecifiedException", "DuplicateNamesException"}
    /\ \A i, j \in DOMAIN Nested(config.orgunits) :
            Nested(config.orgunits)[i].name = Nested(config.orgunits)[j].name => i = j

\* C25: loading a document with nested orgunits gives a flat map of the
\* orgunits of every depth, in which the child_orgunits of an orgunit are
\* exactly the orgunits nested directly under it, so that a top-level
\* orgunit is in no child_orgunits.
C25_NestedOrgunitsFlattened ==
    LoadedNested =>
        /\ error = "none"
        /\ DOMAIN declared.orgunits = {Nested(config.orgunits)[i].name :
                                            i \in DOMAIN Nested(config.orgunits)}
        /\ \A i \in DOMAIN Nested(config.orgunits) :
                Range(declared.orgunits[Nested(config.orgunits)[i].name].child_orgunits)
                    = Nested(config.orgunits)[i].nested


----------------------------------------------------------------------------
(* The hierarchy of get_orgunit_hierarchy.                                 *)

\* get_orgunit_hierarchy has returned a hierarchy.
HierarchyReturned == pc = "hierarchy" /\ hierarchy.err = "none"

\* The orgunits of the model that list the orgunit as a child.
ParentsOf(o) ==
    {q \in DOMAIN declared.orgunits : Contains(declared.orgunits[q].child_orgunits, o)}

\* The node of the hierarchy for orgunit o holds the child orgunits and
\* the accounts o declares, and so do the nodes below it.
RECURSIVE SubtreeAsDeclared(_, _)
SubtreeAsDeclared(o, node) ==
    /\ DOMAIN Get(node, "orgunits", EmptyDict) = Range(declared.orgunits[o].child_orgunits)
    /\ Get(node, "accounts", <<>>) = declared.orgunits[o].accounts
    /\ \A c \in DOMAIN Get(node, "orgunits", EmptyDict) :
            SubtreeAsDeclared(c, node.orgunits[c])

\* C26: in the tree get_orgunit_hierarchy returns, the orgunits directly
\* under ROOT_ACCOUNT are exactly the orgunits that no orgunit lists as a
\* child, and every node of a subtree holds under 'orgunits' exactly the
\* child orgunits and under 'accounts' exactly the accounts its orgunit
\* declares.
C26_HierarchyAsDeclared ==
    HierarchyReturned =>
        /\ DOMAIN hierarchy.value.ROOT_ACCOUNT.orgunits
                = {o \in DOMAIN declared.orgunits : ParentsOf(o) = {}}
        /\ \A o \in DOMAIN hierarchy.value.ROOT_ACCOUNT.orgunits :
                SubtreeAsDeclared(o, hierarchy.value.ROOT_ACCOUNT.orgunits[o])

\* The hierarchy of three orgunits nested in each other, the accounts in
\* the outermost.
C26_Witness ==
    /\ HierarchyReturned
    /\ DOMAIN declared.orgunits = {"ou_a", "ou_b", "ou_c"}
    /\ hierarchy.value.ROOT_ACCOUNT.orgunits
        = [a \in {"ou_a"} |->
            [orgunits |-> [b \in {"ou_b"} |->
                            [orgunits |-> [c \in {"ou_c"} |-> EmptyDict]]],
             accounts |-> <<"acct_a", "acct_b">>]]

\* The accounts without a parent reference that are not the root account,
\* in the order of the accounts of the model.
WithoutParent ==
    SelectSeq(AccountOrder, LAMBDA a :
        /\ a \in DOMAIN declared.accounts
        /\ declared.accounts[a].parent_references = <<>>
        /\ ~IsRootAccount(a))

\* C27: get_orgunit_hierarchy returns the key ORPHANED_ACCOUNTS exactly
\* when an account has no parent reference and is not the root account,
\* and its value is then the list of these accounts; without such an
\* account the hierarchy has no such key.
C27_OrphanedAccountsKey ==
    HierarchyReturned =>
        /\ "ORPHANED_ACCOUNTS" \in DOMAIN hierarchy.value <=> WithoutParent # <<>>
        /\ "ORPHANED_ACCOUNTS" \in DOMAIN hierarchy.value
                => hierarchy.value.ORPHANED_ACCOUNTS = WithoutParent

\* A hierarchy with the two member accounts orphaned and the root account,
\* which no orgunit lists either, left out.
C27_Witness ==
    /\ HierarchyReturned
    /\ "master" \in DOMAIN declared.accounts
    /\ IsRootAccount("master")
    /\ declared.accounts["master"].parent_references = <<>>
    /\ "ORPHANED_ACCOUNTS" \in DOMAIN hierarchy.value
    /\ hierarchy.value.ORPHANED_ACCOUNTS = <<"acct_a", "acct_b">>


----------------------------------------------------------------------------
(* Loading the organization from AWS.                                      *)

LoadReturned == pc \in {"loaded", "error"} /\ declared.source = "aws"

\* C28: when describe_organization fails because there is no organization,
\* load sets exists to FALSE and returns without listing accounts, orgunits
\* or policies; a failure of describe_organization of another kind does not
\* set exists to FALSE.
C28_OnlyNotFoundMeansAbsent ==
    LoadReturned =>
        /\ ~prov.exists =>
            /\ ~declared.exists
            /\ error = "none"
            /\ calls = <<"describe_organization">>
        /\ "describe_error" \in DOMAIN prov => declared.exists

\* The first half of C28 alone: no organization gives exists = FALSE and no
\* listing.
AbsentWhenNotFound ==
    LoadReturned /\ ~prov.exists =>
        /\ ~declared.exists
        /\ error = "none"
        /\ calls = <<"describe_organization">>

\* A failure of describe_organization of another kind
RefusedTakenForAbsent ==
    /\ LoadReturned
    /\ "describe_error" \in DOMAIN prov
    /\ ~declared.exists
    /\ error = "none"

AttributesUnset(org) ==
    /\ org.featureset = NewOrganization("aws").featureset
    /\ org.org_id = NewOrganization("aws").org_id
    /\ org.root_parent_id = NewOrganization("aws").root_parent_id
    /\ org.ids_to_children = NewOrganization("aws").ids_to_children

\* C29: when AWS reports another master account than the root account of
\* the model, load raises OrganizationMemberAccountException and featureset,
\* org_id, root_parent_id and ids_to_children of the model stay unset; load
\* on a model whose source is not "aws" raises NotAwsModelException without
\* any call to AWS.
C29_MemberAccountAndNotAws ==
    pc \in {"loaded", "error"} =>
        /\ (/\ declared.source = "aws"
            /\ ~DescribeRaises(prov)
            /\ prov.master # declared.root_account_id) =>
                /\ error = "OrganizationMemberAccountException"
                /\ AttributesUnset(declared)
        /\ declared.source # "aws" =>
                /\ error = "NotAwsModelException"
                /\ calls = <<>>

C29_Witness ==
    /\ pc = "error"
    /\ declared.source = "aws"
    /\ prov.master # declared.root_account_id
    /\ error = "OrganizationMemberAccountException"
    /\ calls = <<"describe_organization">>
    /\ AttributesUnset(declared)


----------------------------------------------------------------------------
(* The rebuild of the orgunit hierarchy.                                   *)

\* The step of _rebuild_orgunits a call belongs to: 1 its first loop, 2
\* _remove_orgunits, 3 _create_orgunits, 5 its last loop (4, the two
\* reloads, calls nothing that changes AWS).
StepOf(call) ==
    CASE call.op = "move_account" /\ call.seen.to_root -> 1
      [] call.op = "delete_organizational_unit" -> 2
      [] call.op = "create_organizational_unit" -> 3
      [] OTHER -> 5

\* The plan makes _upsert_orgunits rebuild the hierarchy.
Rebuilds == Get(actions, "orgunit_associations", EmptyDict) # EmptyDict

RebuildCalls == SelectSeq(calls, LAMBDA call : call.phase = "upsert_orgunits")

\* The calls are in the order of the steps, an orgunit is deleted after the
\* orgunits below it and created after the orgunit above it.
StepsInOrder(log) ==
    \A i, j \in DOMAIN log :
        i < j =>
            /\ StepOf(log[i]) <= StepOf(log[j])
            /\ (StepOf(log[i]) = 2 /\ StepOf(log[j]) = 2) =>
                    ~Contains(aws_model.orgunits[log[j].name].parent_references,
                              log[i].name)
            /\ (StepOf(log[i]) = 3 /\ StepOf(log[j]) = 3) =>
                    ~Contains(declared.orgunits[log[i].name].parent_references,
                              log[j].name)

\* The orgunits of AWS with the name of the declared orgunit
ProvOrgunitIds(p, orgunit_name) ==
    {p.ous[k].id : k \in {k \in DOMAIN p.ous : p.ous[k].name = orgunit_name}}

\* What a rebuild that returned has done: a delete for every orgunit there
\* was, every declared orgunit in the updated model under the id it has at
\* AWS, and every declared account AWS has under its declared orgunit.
Rebuilt(w) ==
    /\ \A o \in DOMAIN aws_model.orgunits :
            \E i \in DOMAIN w.calls :
                w.calls[i].op = "delete_organizational_unit" /\ w.calls[i].name = o
    /\ \A o \in DOMAIN declared.orgunits :
            /\ o \in DOMAIN w.upd.orgunits
            /\ w.upd.orgunits[o].id \in ProvOrgunitIds(w.prov, o)
            /\ \A i \in DOMAIN Get(declared.orgunits[o], "accounts", <<>>) :
                    LET a == declared.orgunits[o].accounts[i]
                    IN  a \in DOMAIN w.prov.accounts =>
                            w.prov.accounts[a].parent \in
                                UNION {ProvOrgunitIds(w.prov, other) :
                                        other \in {other \in DOMAIN declared.orgunits :
                                            Contains(Get(declared.orgunits[other],
                                                         "accounts", <<>>), a)}}

\* The rebuild run from the state, for every choice of failing calls
RebuildsFrom(fail) ==
    RebuildOrgunits(World(prov, updated_model, changes, <<>>, fail), declared, aws_model)

----------------------------------------------------------------------------
(* A restructure of the hierarchy: a rebuild while the plan deletes an     *)
(* orgunit.                                                                *)

PlannedOrgunits == Get(actions, "orgunits", EmptyDict)

Restructures ==
    /\ pc # "dry_run"
    /\ Rebuilds
    /\ \E o \in DOMAIN PlannedOrgunits : PlannedOrgunits[o].action = "delete"

PastUpsertOrgunits ==
    pc \in {"update_account_associations", "delete_orgunits", "delete_policies", "done"}

\* C31: converging a plan with an orgunit association and the deletion of
\* an orgunit there is runs to completion when no call to AWS fails, its
\* calls being moves to the root, deletes, creates and moves into the
\* orgunits in that order, and once _upsert_orgunits is done the changes of
\* the report have an entry for every orgunit of the plan, the deleted one
\* included.
C31_RestructureCompletes ==
    (Restructures /\ faults = 0) =>
        /\ error = "none"
        /\ StepsInOrder(RebuildCalls)
        /\ PastUpsertOrgunits =>
                DOMAIN PlannedOrgunits \subseteq DOMAIN Get(changes, "orgunits", EmptyDict)

\* The restructure did all its calls and then failed on the orgunit that is
\* gone from the updated model.
RestructureRaisesKeyError ==
    /\ Restructures
    /\ faults = 0
    /\ pc = "error"
    /\ error = "KeyError"
    /\ \E i \in DOMAIN RebuildCalls :
            /\ RebuildCalls[i].op = "delete_organizational_unit"
            /\ RebuildCalls[i].code = "ok"
            /\ PlannedOrgunits[RebuildCalls[i].name].action = "delete"


----------------------------------------------------------------------------
(* Orgunits that are only added.                                           *)

\* The plan creates orgunits and does nothing else to orgunits: every
\* orgunit there is stays declared, with the policies and under the parent
\* it has.
OnlyCreatesOrgunits ==
    /\ pc # "dry_run"
    /\ PlannedOrgunits # EmptyDict
    /\ \A o \in DOMAIN PlannedOrgunits : PlannedOrgunits[o].action = "create"
    /\ \A o \in DOMAIN aws_model.orgunits :
            /\ o \in DOMAIN declared.orgunits
            /\ GetAssociation(declared.orgunits[o]) = GetAssociation(aws_model.orgunits[o])

\* An orgunit there was is deleted, or an account is taken out of one, by
\* _upsert_orgunits.
Dismantles(call) ==
    /\ call.phase = "upsert_orgunits"
    \* a rebuild moves to the root only what is in an orgunit
    /\ \/ call.op = "delete_organizational_unit" /\ call.name \in DOMAIN aws_model.orgunits
       \/ call.op = "move_account" /\ call.seen.to_root

\* C32: when the plan only creates orgunits and no orgunit there is changes
\* its parent, converge does not rebuild the hierarchy: _upsert_orgunits
\* issues no delete_organizational_unit for an orgunit there is and moves no
\* account out of one.
C32_CreationsDoNotRebuild ==
    OnlyCreatesOrgunits =>
        /\ ~Rebuilds
        /\ \A i \in DOMAIN calls : ~Dismantles(calls[i])

\* An orgunit was added next to one that holds an account, and the one
\* there was has been emptied and deleted.
CreationDismantles ==
    /\ OnlyCreatesOrgunits
    /\ faults = 0
    /\ \E i, j \in DOMAIN calls :
            /\ i < j
            /\ Dismantles(calls[i]) /\ calls[i].op = "move_account"
            /\ Dismantles(calls[j]) /\ calls[j].op = "delete_organizational_unit"
            /\ calls[j].code = "ok"

\* The branch of _upsert_orgunits that creates without a rebuild is taken.
CreatesWithoutRebuild ==
    /\ PastUpsertOrgunits
    /\ ~Rebuilds
    /\ \E o \in DOMAIN PlannedOrgunits : PlannedOrgunits[o].action = "create"


----------------------------------------------------------------------------
(* Creating the organization.                                              *)

\* converge created the organization.
OrganizationCreated ==
    /\ calls # <<>>
    /\ calls[1].op = "create_organization"
    /\ calls[1].code = "ok"

\* The parent the orgunit has at AWS, as the name the model has for it
ProvParentOf(p, parent_id) ==
    IF parent_id = RootParentId THEN {"root"}
    ELSE {p.ous[k].name : k \in {k \in DOMAIN p.ous : p.ous[k].id = parent_id}}

\* AWS holds what the model declares: its policies, its orgunits under
\* their declared parents, and its accounts, those whose creation did not
\* fail, under theirs.
HoldsDeclared(p) ==
    /\ p.exists
    /\ p.featureset = declared.featureset
    /\ p.scp_enabled
    /\ \A n \in DOMAIN declared.policies : n \in DOMAIN p.policies
    /\ \A o \in DOMAIN declared.orgunits :
            \E k \in DOMAIN p.ous :
                /\ p.ous[k].name = o
                /\ GetAssociation(declared.orgunits[o]) \in ProvParentOf(p, p.ous[k].parent)
    /\ \A a \in DOMAIN declared.accounts :
            \/ /\ a \in DOMAIN p.accounts
               /\ ParentOfAccount(declared, a) \in ProvParentOf(p, p.accounts[a].parent)
            \/ /\ a \in DOMAIN p.requests
               /\ p.requests[a].state # "SUCCEEDED"

----------------------------------------------------------------------------
(* The wait on the creation of accounts.                                   *)

Waiting == pc = "wait_on_account_creation"

InProgress(a) == creation_statuses[a].State = "IN_PROGRESS"

\* The loop is left when, and only when, no submitted account is still
\* IN_PROGRESS; each recorded status is the last AWS reported for the
\* request, once it has been asked.
WaitsForThoseInProgress ==
    Waiting =>
        /\ Range(waiting_accounts) = {a \in DOMAIN creation_statuses : InProgress(a)}
        /\ \A a \in DOMAIN creation_statuses :
                prov.requests[a].polls > 0 =>
                    creation_statuses[a] = CreateAccountStatus(prov, a)

\* A request that reported a state other than IN_PROGRESS is not asked about
\* again.
PollsThoseInProgress ==
    Waiting =>
        \A a \in DOMAIN creation_statuses :
            ~InProgress(a) => prov'.requests[a].polls = prov.requests[a].polls

\* C34: the loop of _wait_on_account_creation ends once every submitted
\* account has reported a state other than IN_PROGRESS, and it does end,
\* every creation leaving IN_PROGRESS at some time; when it is left no
\* recorded status is IN_PROGRESS, each is the last one AWS reported for the
\* request, and an account that reported a final state was not polled again.
C34_WaitTerminates ==
    /\ []WaitsForThoseInProgress
    /\ [][PollsThoseInProgress]_vars
    /\ (Waiting ~> ~Waiting)

\* The wait is over: acct_a reported a final state in the first pass and
\* was not asked about in the second, which acct_b needed.
C34_Witness ==
    /\ Waiting
    /\ waiting_accounts = <<>>
    /\ DOMAIN creation_statuses = {"acct_a", "acct_b"}
    /\ prov.requests["acct_a"].polls = 1
    /\ prov.requests["acct_b"].polls = 2
    /\ polls = 3


----------------------------------------------------------------------------
(* OrganizationService.move_account.                                       *)

\* converge is at a statement that moves accounts.
MovesAccounts == pc \in {"upsert_orgunits", "update_account_associations"}

\* The accounts and parents move_account can be called for.
Movable == DOMAIN updated_model.accounts \cap DOMAIN prov.accounts

Destinations == {"root"} \cup DOMAIN updated_model.orgunits

DestinationId(parent_name) ==
    IF parent_name = "root" THEN RootParentId ELSE updated_model.orgunits[parent_name].id

\* move_account called now
Moved(account_name, parent_name) ==
    MoveAccount(World(prov, updated_model, changes, <<>>, {}), aws_model, "move",
                account_name, parent_name)

\* What move_account did when the parents differ
Reassociated(w, account_name, parent_name) ==
    /\ Len(w.calls) = 1
    /\ w.calls[1].op = "move_account"
    /\ w.calls[1].name = account_name
    /\ w.calls[1].code \in {"ok", "DestinationParentNotFoundException"}
    /\ w.calls[1].code = "ok" =>
            /\ w.err = "none"
            /\ w.ret = [action |-> "reassociated", parent |-> DestinationId(parent_name)]
            /\ w.prov = [prov EXCEPT
                            !.accounts[account_name].parent = DestinationId(parent_name)]

\* What it did when they are the same
LeftInPlace(w) ==
    /\ w.calls = <<>>
    /\ w.err = "none"
    /\ w.ret = EmptyDict
    /\ w.prov = prov

----------------------------------------------------------------------------
(* OrganizationService.update_entity_policy_attachments and                *)
(* update_orgunit_policies.                                                *)

\* The policies of list s that list t has not
Without(s, t) == Range(s) \ Range(t)

\* The policies the calls `op` of the log were issued for
IssuedFor(log, op) == {log[i].name : i \in {i \in DOMAIN log : log[i].op = op}}

\* What update_entity_policy_attachments did: one call for each policy only
\* one list has and for no other, no attach after a detach, and a call for
\* each of them unless AWS refused one.
Reattached(w, old_policies, new_policies) ==
    /\ \A i \in DOMAIN w.calls : w.calls[i].op \in {"attach_policy", "detach_policy"}
    /\ IssuedFor(w.calls, "attach_policy") \subseteq Without(new_policies, old_policies)
    /\ IssuedFor(w.calls, "detach_policy") \subseteq Without(old_policies, new_policies)
    /\ \A i, j \in DOMAIN w.calls :
            (i # j /\ w.calls[i].op = w.calls[j].op) => w.calls[i].name # w.calls[j].name
    /\ \A i, j \in DOMAIN w.calls :
            (w.calls[i].op = "detach_policy" /\ w.calls[j].op = "attach_policy") => j < i
    /\ w.err = "none" =>
            /\ IssuedFor(w.calls, "attach_policy") = Without(new_policies, old_policies)
            /\ IssuedFor(w.calls, "detach_policy") = Without(old_policies, new_policies)

\* The service has returned or raised.
ServiceCalled(call) == pc \in {"served", "error"} /\ arguments.call = call

\* C36: update_entity_policy_attachments issues attach_policy for the
\* policies of the new list that are not in the old list and detach_policy
\* for those of the old list that are not in the new one, nothing for the
\* policies in both, and every attach before any detach;
\* update_orgunit_policies issues no call when the declared and the current
\* list of policies are equal.
C36_AttachesThenDetaches ==
    /\ ServiceCalled("update_entity_policy_attachments") =>
            Reattached([calls |-> calls, err |-> error],
                       arguments.old_policies, arguments.new_policies)
    /\ ServiceCalled("update_orgunit_policies") =>
            (Get(declared.orgunits[arguments.orgunit_name], "policies", <<>>)
                    = Get(updated_model.orgunits[arguments.orgunit_name], "policies", <<>>)
                => calls = <<>>)

\* A target had pol_a and was given FullAWSAccess instead: one attach, then
\* one detach.
C36_Witness ==
    /\ ServiceCalled("update_entity_policy_attachments")
    /\ pc = "served"
    /\ arguments.old_policies = <<"pol_a">>
    /\ arguments.new_policies = <<"FullAWSAccess">>
    /\ Len(calls) = 2
    /\ calls[1].op = "attach_policy" /\ calls[1].name = "FullAWSAccess"
    /\ calls[2].op = "detach_policy" /\ calls[2].name = "pol_a"

\* update_orgunit_policies found the declared policies attached already.
OrgunitPoliciesKept ==
    /\ ServiceCalled("update_orgunit_policies")
    /\ Get(declared.orgunits[arguments.orgunit_name], "policies", <<>>) = <<"FullAWSAccess">>
    /\ Get(updated_model.orgunits[arguments.orgunit_name], "policies", <<>>)
            = <<"FullAWSAccess">>
    /\ calls = <<>>


----------------------------------------------------------------------------
(* Organization.validate, called again on the model it has validated.      *)

\* The entity without its parent_references
Unreferenced(entity) == [k \in DOMAIN entity \ {"parent_references"} |-> entity[k]]

\* The model without the parent_references of its accounts and orgunits
WithoutReferences(org) ==
    [org EXCEPT !.orgunits = [n \in DOMAIN @ |-> Unreferenced(@[n])],
                !.accounts = [n \in DOMAIN @ |-> Unreferenced(@[n])]]

\* validate has returned on the model.
ValidateHasReturned == pc = "validated"

\* A call of validate leaves the model as it was but for parent_references.
ValidateSetsReferencesOnly ==
    (pc = "model" /\ pc' = "validated")
        => WithoutReferences(declared') = WithoutReferences(declared)

\* The second call returns the problems of the first and leaves the model.
ValidatesAgainAlike ==
    ValidateHasReturned =>
        /\ ValidateModel(declared).err = "none"
        /\ ValidateModel(declared).value.problems = problems.raised
        /\ ValidateModel(declared).value.org = declared

\* C37: validate is idempotent on an unchanged model: every call returns the
\* same problems and leaves the same parent_references on every account and
\* orgunit, reset and computed again on each pass and never accumulated,
\* and validate changes nothing of the model but parent_references.
C37_ValidateIsIdempotent ==
    []ValidatesAgainAlike /\ [][ValidateSetsReferencesOnly]_vars

\* A validated model with a problem, an account with a parent and an
\* orgunit with a parent
C37_Witness ==
    /\ ValidateHasReturned
    /\ problems.raised # EmptyDict
    /\ \E a \in DOMAIN declared.accounts : declared.accounts[a].parent_references # <<>>
    /\ \E o \in DOMAIN declared.orgunits : declared.orgunits[o].parent_references # <<>>


----------------------------------------------------------------------------
(* Organization.dry_run on a configured model with problems.               *)

\* dry_run has returned or raised.
DryRunEnded == pc # "dry_run"

\* The configured model has a problem.
DeclaredInvalid == Validate(declared).problems # EmptyDict

\* C38: dry_run validates the configured model before it touches AWS: when
\* the model has any problem, dry_run raises InvalidOrganizationException,
\* no call was issued, describe_organization neither, and no aws_model was
\* built.
C38_ValidatesBeforeLoading ==
    (DryRunEnded /\ DeclaredInvalid) =>
        /\ error = "InvalidOrganizationException"
        /\ calls = <<>>
        /\ aws_model = EmptyDict

\* A dry run of a model with a problem, on an organization that exists
C38_Witness ==
    /\ DryRunEnded
    /\ DeclaredInvalid
    /\ prov.exists
    /\ error = "InvalidOrganizationException"
    /\ calls = <<>>

\* A dry run of a model without problems has described the organization.
ValidDescribed ==
    /\ DryRunEnded
    /\ ~DeclaredInvalid
    /\ calls # <<>>
    /\ calls[1] = "describe_organization"


----------------------------------------------------------------------------
(* The accounts of AWS that the configured model lacks.                    *)

\* dry_run has compared the configured model with that of an organization.
HasPlan == pc # "dry_run" /\ aws_model # EmptyDict /\ aws_model.exists

\* report['unknown_accounts'] of _compare_accounts: the accounts of the
\* model of AWS that the configured model lacks
UnknownAccounts == DOMAIN aws_model.accounts \ DOMAIN declared.accounts

\* The plan creates, invites or updates configured accounts and does no
\* more with an unknown account than to associate it with the root.
PlanKeepsAccounts ==
    HasPlan =>
        /\ \A a \in DOMAIN Get(actions, "accounts", EmptyDict) :
                /\ a \in DOMAIN declared.accounts
                /\ actions["accounts"][a].action \in {"create", "invite", "update"}
        /\ \A a \in UnknownAccounts :
                /\ \A kind \in DOMAIN actions \ {"account_associations"} :
                        a \notin DOMAIN actions[kind]
                /\ PlannedParent("account_associations", a)
                        \in {NoAssociation, Associate("root")}

\* No call of the log removes an account from the organization or closes it.
CallsKeepAccounts ==
    \A i \in DOMAIN calls :
        calls[i].op \notin {"remove_account_from_organization", "close_account",
                            "leave_organization", "delete_organization"}

\* A step leaves AWS every account it had.
StepKeepsAccounts == DOMAIN prov.accounts \subseteq DOMAIN prov'.accounts

\* C39: no plan of the differ and no converge removes or closes an account:
\* an account of AWS that is not configured is only listed as unknown, and
\* at most associated with the root, and the accounts of AWS after converge
\* include those before it.
C39_AccountsAreKept ==
    []PlanKeepsAccounts /\ []CallsKeepAccounts /\ [][StepKeepsAccounts]_vars

\* A converge that has run to its end, having moved an unknown account to
\* the root, and the account is still there
C39_Witness ==
    /\ pc = "done"
    /\ HasPlan
    /\ \E a \in UnknownAccounts :
            /\ PlannedParent("account_associations", a) = Associate("root")
            /\ a \in DOMAIN prov.accounts
            /\ \E i \in DOMAIN calls :
                    calls[i].op = "move_account" /\ calls[i].name = a /\ calls[i].code = "ok"


----------------------------------------------------------------------------
(* The reloads of self.updated_model in converge.                          *)

\* The policies AWS has attached to the target
AttachedAt(p, target_id) ==
    {n \in DOMAIN p.policies : <<p.policies[n].id, target_id>> \in p.attachments}

\* No policy is twice in the list.
Once(policies) == \A i, j \in DOMAIN policies : i # j => policies[i] # policies[j]

\* The policies of the entities of a dict of the model are attached to them
\* at AWS, and none is listed twice.
EntitiesReflect(entities, id_of(_), p) ==
    \A n \in DOMAIN entities :
        /\ Once(Get(entities[n], "policies", <<>>))
        /\ Range(Get(entities[n], "policies", <<>>)) \subseteq AttachedAt(p, id_of(n))

\* The model lists a policy on the root, an account or an orgunit once and
\* only when AWS has it attached there.
ReflectsAttachments(org, p) ==
    /\ Once(org.root_policies)
    /\ Range(org.root_policies) \subseteq AttachedAt(p, RootParentId)
    /\ EntitiesReflect(org.accounts, LAMBDA a : org.accounts[a].account_id, p)
    /\ EntitiesReflect(org.orgunits, LAMBDA o : org.orgunits[o].id, p)

\* The step is a statement of converge that ends with a reload of the
\* updated model: load_policies of _upsert_policies, reload_accounts of
\* _upsert_accounts.
EndsWithReload ==
    /\ \/ pc = "upsert_policies" /\ "policies" \in DOMAIN actions
       \/ pc = "wait_on_account_creation" /\ waiting_accounts = <<>>
    /\ pc' \notin {pc, "error"}

\* C40: after every reload of converge the updated model reflects the
\* policy attachments of AWS: no policy is more than once in its
\* root_policies or in the policies of an account or orgunit, a policy is
\* listed only where AWS has it attached, and the aws_model the updated
\* model was copied from is unchanged.
C40_ReloadReflectsAttachments ==
    [][EndsWithReload =>
            /\ ReflectsAttachments(updated_model', prov')
            /\ aws_model' = aws_model]_vars

\* After load_policies of _upsert_policies a policy is twice in the
\* root_policies of the updated model.
RootPolicyLoadedTwice ==
    /\ pc = "upsert_root_policy_targets"
    /\ "policies" \in DOMAIN actions
    /\ ~Once(updated_model.root_policies)

\* The load_policies of _upsert_policies leaves the aws_model as it was and
\* lists on the root only policies AWS has attached to it.
PolicyReloadListsAttachedOnly ==
    [][(EndsWithReload /\ pc = "upsert_policies") =>
            /\ aws_model' = aws_model
            /\ Range(updated_model'.root_policies)
                    \subseteq AttachedAt(prov', RootParentId)]_vars

\* After reload_accounts of _upsert_accounts the updated model lists on the
\* root a policy that _upsert_root_policy_targets has detached.
RootPolicyStale ==
    /\ pc = "upsert_orgunits"
    /\ creation_statuses # EmptyDict
    /\ Range(updated_model.root_policies) \ AttachedAt(prov, RootParentId) # {}

====
